---- MODULE Spec2Model ----
(***************************************************************************)
(* Model of mesh_processing.py: convert(data, output_path) and the five    *)
(* version handlers it dispatches to, and of the two places of test.py     *)
(* (class App) that use it or run beside it: convert_mesh_to_obj and the   *)
(* live update of the cache browser.  A byte is a number 0..255, a buffer  *)
(* a sequence of bytes, a Python str a sequence of code points.  An        *)
(* unsigned 32-bit value is kept as its two 16-bit halves, so that r + 1   *)
(* is computed without the width of the checker's integers getting in the  *)
(* way.  A float is kept in hundredths (0.25 is 25).                       *)
(***************************************************************************)
EXTENDS Integers, Sequences, FiniteSets, TLC

VARIABLES
    data,      \* the buffer convert() was called with
    pc,        \* position of the call
    payload,   \* convert's local `data` after the marker slice
    token,     \* num_only_ver, a sequence of code points
    handler,   \* the version_N function that was entered, or "none"
    calls,     \* how many version handlers were entered
    pos,       \* the BytesIO cursor
    hdr,       \* the header fields the handler has unpacked so far
    verts,     \* list of v200Vertex
    faces,     \* list of v200Face
    lods,      \* list of LOD entries
    content,   \* version_1: the parsed JSON list
    opened,    \* open(output_path, 'w') was executed
    file,      \* the lines the output path holds because of this call
    result,    \* "pending", "None" (convert returned) or the exception raised
    steps,     \* history: the phases executed so far, in order
    short,     \* history: some stream.read returned fewer bytes than asked for
    log,       \* the calls that returned or raised before this one, in order
    other,     \* the local state of a second call that is suspended, if any
    app        \* test.py: the fields of App the callers of convert and the
               \* live update use

vars == <<data, pc, payload, token, handler, calls, pos, hdr, verts, faces,
          lods, content, opened, file, result, steps, short, log, other, app>>

(***************************************************************************)
(* Bounds of the input family.                                             *)
(***************************************************************************)
MaxVerts == 2
MaxFaces == 2

Min(a, b) == IF a < b THEN a ELSE b

\* the concatenation of a sequence of sequences, by halves
RECURSIVE Concat(_)
Concat(ss) ==
    IF ss = <<>> THEN <<>>
    ELSE IF Len(ss) = 1 THEN ss[1]
    ELSE Concat(SubSeq(ss, 1, Len(ss) \div 2))
         \o Concat(SubSeq(ss, Len(ss) \div 2 + 1, Len(ss)))

\* the indices of s, in order, at which P holds
Where(s, P(_)) == SelectSeq([i \in 1..Len(s) |-> i], P)

Rep(b, n) == [i \in 1..n |-> b]

(***************************************************************************)
(* bytes slicing and io.BytesIO.read                                       *)
(***************************************************************************)
\* data[a:b] for 0 <= a <= b
Slice(d, a, b) == SubSeq(d, Min(a, Len(d)) + 1, Min(b, Len(d)))

\* stream.read(n): at most n bytes, fewer when the buffer ends; never raises
StreamRead(d, p, n) == Slice(d, p, p + n)
StreamTell(d, p, n) == Min(p + n, Len(d))

(***************************************************************************)
(* struct.unpack: raises struct.error unless the bytes have the exact size *)
(***************************************************************************)
UnpackOk(b, size) == Len(b) = size

U8(b)  == b[1]
U16(b) == b[1] + 256 * b[2]
\* 'I': the value as its 16-bit halves, value = hi * 65536 + lo
U32(b) == [hi |-> b[3] + 256 * b[4], lo |-> b[1] + 256 * b[2]]
\* 'b': signed char
S8(b)  == IF b[1] >= 128 THEN b[1] - 256 ELSE b[1]

\* a Python int held as halves, for range() and arithmetic on counts
AsInt(w) == w.hi * 65536 + w.lo

\* the addition in 32-bit unsigned arithmetic, which wraps to 0
WideIncWraps(w) ==
    IF w.lo + 1 = 65536 THEN [hi |-> (w.hi + 1) % 65536, lo |-> 0]
    ELSE [hi |-> w.hi, lo |-> w.lo + 1]

\* Python int addition on a value held as halves: no wrap, hi may pass 65535
WideInc(w) == IF w.lo + 1 = 65536 THEN [hi |-> w.hi + 1, lo |-> 0]
              ELSE [hi |-> w.hi, lo |-> w.lo + 1]

\* 'f': IEEE-754 binary32, little-endian, in hundredths.  Init draws floats
\* from this table only; any other bit pattern is reported as -1.
F32(b) ==
    CASE b = <<0, 0, 0, 0>>    -> 0
      [] b = <<0, 0, 128, 62>> -> 25
      [] b = <<0, 0, 0, 63>>   -> 50
      [] b = <<0, 0, 64, 63>>  -> 75
      [] b = <<0, 0, 128, 63>> -> 100
      [] b = <<0, 0, 0, 64>>   -> 200
      [] b = <<0, 0, 64, 64>>  -> 300
      [] OTHER                 -> -1

(***************************************************************************)
(* bytes.decode('utf-8') for the one- and two-byte forms.  Init draws no   *)
(* lead byte of a three- or four-byte form; 0xFF is never valid.           *)
(***************************************************************************)
IsCont(x) == x >= 128 /\ x <= 191
IsLead2(x) == x >= 194 /\ x <= 223

Utf8Decode(b) ==
    LET Good(i) == \/ b[i] < 128
                   \/ IsLead2(b[i]) /\ i + 1 <= Len(b) /\ IsCont(b[i + 1])
                   \/ IsCont(b[i]) /\ i > 1 /\ IsLead2(b[i - 1])
        Start(i) == ~IsCont(b[i])
        at == Where(b, Start)
    IN IF \A i \in 1..Len(b) : Good(i)
       THEN [ok |-> TRUE,
             s |-> [k \in 1..Len(at) |->
                      IF b[at[k]] < 128 THEN b[at[k]]
                      ELSE (b[at[k]] - 192) * 64 + (b[at[k] + 1] - 128)]]
       ELSE [ok |-> FALSE, s |-> <<>>]

\* s[8:] of a str
StrFrom8(s) == SubSeq(s, 9, Len(s))

(***************************************************************************)
(* bytes.find: index of the first occurrence, -1 when there is none        *)
(***************************************************************************)
Marker == <<118, 101, 114, 115, 105, 111, 110, 32>>   \* b'version '

Find(d, m) ==
    LET hits == {i \in 0..(Len(d) - Len(m)) : SubSeq(d, i + 1, i + Len(m)) = m}
    IN IF hits = {} THEN -1
       ELSE CHOOSE i \in hits : \A j \in hits : i <= j


(***************************************************************************)
(* convert: the version token and the dispatch table                       *)
(***************************************************************************)
\* a marker search that finds nothing: the buffer is dispatched as it is
MarkerSliceNone(d) == d

\* data[version_index:] when the marker was found, data otherwise
MarkerSlice(d) ==
    LET version_index == Find(d, Marker)
    IN IF version_index # -1 THEN Slice(d, version_index, Len(d)) ELSE d

\* a dispatch chain whose '4.01' arm sits in the wrong branch
DispatchWrongArm(num_only_ver) ==
    CASE num_only_ver = <<53, 46, 48, 48>> -> "version_5"
      [] num_only_ver = <<52, 46, 48, 48>> -> "version_4"
      [] num_only_ver = <<52, 46, 48, 49>> -> "version_5"
      [] num_only_ver = <<51, 46, 48, 48>> -> "version_3"
      [] num_only_ver = <<51, 46, 48, 49>> -> "version_3"
      [] num_only_ver = <<50, 46, 48, 48>> -> "version_2"
      [] num_only_ver = <<49, 46, 48, 48>> -> "version_1"
      [] num_only_ver = <<49, 46, 48, 49>> -> "version_1"
      [] OTHER -> "none"

\* the if/elif chain on num_only_ver; "none" is the final else
Dispatch(num_only_ver) ==
    CASE num_only_ver = <<53, 46, 48, 48>> -> "version_5"      \* '5.00'
      [] num_only_ver = <<52, 46, 48, 48>> -> "version_4"      \* '4.00'
      [] num_only_ver = <<52, 46, 48, 49>> -> "version_4"      \* '4.01'
      [] num_only_ver = <<51, 46, 48, 48>> -> "version_3"      \* '3.00'
      [] num_only_ver = <<51, 46, 48, 49>> -> "version_3"      \* '3.01'
      [] num_only_ver = <<50, 46, 48, 48>> -> "version_2"      \* '2.00'
      [] num_only_ver = <<49, 46, 48, 48>> -> "version_1"      \* '1.00'
      [] num_only_ver = <<49, 46, 48, 49>> -> "version_1"      \* '1.01'
      [] OTHER -> "none"

(***************************************************************************)
(* A run of stream.read(n) calls.  A field is [n, unpack]: unpack = TRUE   *)
(* is struct.unpack(fmt, stream.read(n)), which raises struct.error on a   *)
(* short read; unpack = FALSE is a bare stream.read(n), whose result is    *)
(* dropped and whose length nobody looks at.                               *)
(***************************************************************************)
Unp(n)  == [n |-> n, unpack |-> TRUE]
Skip(n) == [n |-> n, unpack |-> FALSE]

\* short: one of the reads asked for more bytes than were left
RECURSIVE ReadFields(_, _, _, _)
ReadFields(d, p, fields, acc) ==
    IF fields = <<>> THEN [ok |-> TRUE, pos |-> p, raw |-> acc, short |-> FALSE]
    ELSE LET f == Head(fields)
             b == StreamRead(d, p, f.n)
             q == StreamTell(d, p, f.n)
             rest == ReadFields(d, q, Tail(fields), Append(acc, b))
         IN IF f.unpack /\ ~UnpackOk(b, f.n)
            THEN [ok |-> FALSE, pos |-> q, raw |-> acc, short |-> TRUE]
            ELSE [rest EXCEPT !.short = rest.short \/ Len(b) < f.n]

(***************************************************************************)
(* read_vertices, read_faces, read_lods                                    *)
(***************************************************************************)
\* a record layout that reads the colour whatever the record size
VertexFieldsColourAlways(szvertex) ==
    <<Unp(12), Unp(12), Unp(4), Unp(4), Unp(4), Unp(4)>>

VertexFields(szvertex) ==
    <<Unp(12), Unp(12), Unp(4), Unp(4), Unp(4)>>
        \o (IF szvertex = 40 THEN <<Unp(4)>> ELSE <<>>)

\* a V component flipped twice, which is the raw value again
FlipVTwice(raw_v) == 100 - (100 - raw_v)

\* tv = 1.0 - raw v, in hundredths
FlipV(raw_v) == 100 - raw_v

Vertex(raw, szvertex) ==
    [px |-> F32(SubSeq(raw[1], 1, 4)), py |-> F32(SubSeq(raw[1], 5, 8)),
     pz |-> F32(SubSeq(raw[1], 9, 12)),
     nx |-> F32(SubSeq(raw[2], 1, 4)), ny |-> F32(SubSeq(raw[2], 5, 8)),
     nz |-> F32(SubSeq(raw[2], 9, 12)),
     tu |-> F32(raw[3]), tv |-> FlipV(F32(raw[4])), tw |-> 0,
     tx |-> S8(SubSeq(raw[5], 1, 1)), ty |-> S8(SubSeq(raw[5], 2, 2)),
     tz |-> S8(SubSeq(raw[5], 3, 3)), ts |-> S8(SubSeq(raw[5], 4, 4)),
     r |-> IF szvertex = 40 THEN raw[6][1] ELSE 255,
     g |-> IF szvertex = 40 THEN raw[6][2] ELSE 255,
     b |-> IF szvertex = 40 THEN raw[6][3] ELSE 255,
     a |-> IF szvertex = 40 THEN raw[6][4] ELSE 255]

\* a reader that stops at a short record and returns the vertices read so far
RECURSIVE read_vertices_stops_short(_, _, _, _, _)
read_vertices_stops_short(d, p, count, szvertex, acc) ==
    IF count = 0 THEN [ok |-> TRUE, pos |-> p, verts |-> acc]
    ELSE LET rd == ReadFields(d, p, VertexFields(szvertex), <<>>)
         IN IF ~rd.ok THEN [ok |-> TRUE, pos |-> rd.pos, verts |-> acc]
            ELSE read_vertices_stops_short(d, rd.pos, count - 1, szvertex,
                                           Append(acc, Vertex(rd.raw, szvertex)))

RECURSIVE read_vertices(_, _, _, _, _)
read_vertices(d, p, count, szvertex, acc) ==
    IF count = 0 THEN [ok |-> TRUE, pos |-> p, verts |-> acc]
    ELSE LET rd == ReadFields(d, p, VertexFields(szvertex), <<>>)
         IN IF ~rd.ok THEN [ok |-> FALSE, pos |-> rd.pos, verts |-> acc]
            ELSE read_vertices(d, rd.pos, count - 1, szvertex,
                               Append(acc, Vertex(rd.raw, szvertex)))

\* struct.unpack('I', ...)[0] + 1
FaceIndex(b) == WideInc(U32(b))

RECURSIVE read_faces(_, _, _, _)
read_faces(d, p, num_faces, acc) ==
    IF num_faces = 0 THEN [ok |-> TRUE, pos |-> p, faces |-> acc]
    ELSE LET rd == ReadFields(d, p, <<Unp(4), Unp(4), Unp(4)>>, <<>>)
         IN IF ~rd.ok THEN [ok |-> FALSE, pos |-> rd.pos, faces |-> acc]
            ELSE read_faces(d, rd.pos, num_faces - 1,
                            Append(acc, [a |-> FaceIndex(rd.raw[1]),
                                         b |-> FaceIndex(rd.raw[2]),
                                         c |-> FaceIndex(rd.raw[3])]))

RECURSIVE read_lods(_, _, _, _)
read_lods(d, p, num_lods, acc) ==
    IF num_lods = 0 THEN [ok |-> TRUE, pos |-> p, lods |-> acc]
    ELSE LET rd == ReadFields(d, p, <<Unp(4)>>, <<>>)
         IN IF ~rd.ok THEN [ok |-> FALSE, pos |-> rd.pos, lods |-> acc]
            ELSE read_lods(d, rd.pos, num_lods - 1, Append(acc, U32(rd.raw[1])))


(***************************************************************************)
(* Output lines.  A line is [kind, w]: kind is the first word of the line  *)
(* ("#", "v", "vn", "vt", "f") and w the values formatted after it.  A     *)
(* value is tagged: "num" a float or JSON number in hundredths, "idx" a    *)
(* Python int as halves, "str" a str, "arr" a JSON list, "arr." the text   *)
(* of a list after append_fix replaced its commas.                         *)
(***************************************************************************)
Num(n)  == [t |-> "num", n |-> n]
Idx(w)  == [t |-> "idx", hi |-> w.hi, lo |-> w.lo]
Line(kind, w) == [kind |-> kind, w |-> w]

\* insert.replace(",", "."): the repr of a number holds no comma, the repr of
\* a list of two or more elements does
ReplaceComma(word) ==
    IF word.t = "arr" /\ Len(word.a) >= 2 THEN [t |-> "arr.", a |-> word.a]
    ELSE word

append_fix(builder, insert) ==
    Append(builder,
           Line(insert.kind, [i \in DOMAIN insert.w |-> ReplaceComma(insert.w[i])]))

CommentLine(version) == Line("#", <<[t |-> "str", s |-> version]>>)

(***************************************************************************)
(* write_obj_file.  lods = None is passed as the empty list (both are      *)
(* falsy and lods is read nowhere else), lod_type = None as -1.  The file  *)
(* is opened first and closed by the with statement on every exit, so an   *)
(* exception inside leaves the comment line in it.                         *)
(***************************************************************************)
RECURSIVE VertLines(_, _, _)
VertLines(vs, kind, acc) ==
    IF vs = <<>> THEN acc
    ELSE LET vert == Head(vs)
             ln == CASE kind = "v"  -> Line("v", <<Num(vert.px), Num(vert.py), Num(vert.pz)>>)
                     [] kind = "vn" -> Line("vn", <<Num(vert.nx), Num(vert.ny), Num(vert.nz)>>)
                     [] OTHER       -> Line("vt", <<Num(vert.tu), Num(vert.tv), Num(0)>>)
         IN VertLines(Tail(vs), kind, append_fix(acc, ln))

FaceLine(face) ==
    Line("f", <<Idx(face.a), Idx(face.a), Idx(face.a),
                Idx(face.b), Idx(face.b), Idx(face.b),
                Idx(face.c), Idx(face.c), Idx(face.c)>>)

\* the loop over range(face_limit): faces[i] raises IndexError past the list
RECURSIVE FaceLines(_, _, _, _)
FaceLines(fs, i, face_limit, acc) ==
    IF i >= face_limit THEN [ok |-> TRUE, lines |-> acc]
    ELSE IF i >= Len(fs) THEN [ok |-> FALSE, lines |-> acc]
    ELSE FaceLines(fs, i + 1, face_limit, append_fix(acc, FaceLine(fs[i + 1])))

\* a face limit that takes lods[1] whenever the flag is nonzero, without the
\* test that the table is non-empty
FaceLimitUnguarded(ls, lod_type, num_faces) ==
    IF lod_type = -1 \/ lod_type = 0 THEN num_faces
    ELSE IF Len(ls) < 2 THEN -1 ELSE AsInt(ls[2])

\* face_limit, or -1 when lods[1] raises IndexError
FaceLimit(ls, lod_type, num_faces) ==
    IF ls # <<>> /\ lod_type # -1
    THEN IF lod_type = 0 THEN num_faces
         ELSE IF Len(ls) < 2 THEN -1 ELSE AsInt(ls[2])
    ELSE num_faces

\* a serializer that writes the normals before the positions
write_obj_file_normals_first(version, vs, fs, ls, lod_type, num_faces) ==
    LET head == <<CommentLine(version)>>
        face_limit == FaceLimit(ls, lod_type, num_faces)
        fl == FaceLines(fs, 0, face_limit, <<>>)
    IN IF face_limit = -1 \/ ~fl.ok
       THEN [exc |-> "IndexError", lines |-> head]
       ELSE [exc |-> "None",
             lines |-> head \o VertLines(vs, "vn", <<>>) \o VertLines(vs, "v", <<>>)
                            \o VertLines(vs, "vt", <<>>) \o fl.lines]

write_obj_file(version, vs, fs, ls, lod_type, num_faces) ==
    LET head == <<CommentLine(version)>>
        face_limit == FaceLimit(ls, lod_type, num_faces)
        fl == FaceLines(fs, 0, face_limit, <<>>)
    IN IF face_limit = -1 \/ ~fl.ok
       THEN [exc |-> "IndexError", lines |-> head]
       ELSE [exc |-> "None",
             lines |-> head \o VertLines(vs, "v", <<>>) \o VertLines(vs, "vn", <<>>)
                            \o VertLines(vs, "vt", <<>>) \o fl.lines]

(***************************************************************************)
(* The headers of the binary handlers: everything up to read_vertices.     *)
(* st is "ok", "return" (the header-size branch) or "struct.error".        *)
(***************************************************************************)
NoHdr == [lod_type |-> -1, num_verts |-> 0, num_faces |-> 0, num_lods |-> 0,
          num_bones |-> 0, szvertex |-> 0]

MeshHeader(d, size, padding) ==
    LET r1 == ReadFields(d, 0, <<Skip(13), Unp(2)>>, <<>>)
        r2 == ReadFields(d, r1.pos,
                         <<Unp(2), Unp(4), Unp(4), Unp(2), Unp(2), Unp(4), Unp(2), Unp(1)>>
                             \o padding, <<>>)
    IN IF ~r1.ok
       THEN [st |-> "struct.error", pos |-> r1.pos, short |-> TRUE, hdr |-> NoHdr]
       ELSE IF U16(r1.raw[2]) # size
            THEN [st |-> "return", pos |-> r1.pos, short |-> r1.short, hdr |-> NoHdr]
       ELSE IF ~r2.ok
            THEN [st |-> "struct.error", pos |-> r2.pos, short |-> TRUE, hdr |-> NoHdr]
       ELSE [st |-> "ok", pos |-> r2.pos, short |-> r1.short \/ r2.short,
             hdr |-> [lod_type |-> U16(r2.raw[1]), num_verts |-> AsInt(U32(r2.raw[2])),
                      num_faces |-> AsInt(U32(r2.raw[3])), num_lods |-> U16(r2.raw[4]),
                      num_bones |-> U16(r2.raw[5]), szvertex |-> 40]]

\* a version 5 header that leaves out the last four padding bytes
version_5_header_short_padding(d) == MeshHeader(d, 32, <<Skip(1), Skip(4)>>)

version_5_header(d) == MeshHeader(d, 32, <<Skip(1), Skip(4), Skip(4)>>)
version_4_header(d) == MeshHeader(d, 24, <<Skip(1)>>)

\* a v3 header that hands a nonzero LOD-type flag to the serializer
version_3_header_gated(d) ==
    LET r == ReadFields(d, 0, <<Skip(13), Unp(2), Unp(1), Unp(1), Unp(2), Unp(2),
                                Unp(4), Unp(4)>>, <<>>)
    IN IF ~r.ok THEN [st |-> "struct.error", pos |-> r.pos, short |-> TRUE, hdr |-> NoHdr]
       ELSE [st |-> "ok", pos |-> r.pos, short |-> r.short,
             hdr |-> [lod_type |-> 1, num_verts |-> AsInt(U32(r.raw[7])),
                      num_faces |-> AsInt(U32(r.raw[8])), num_lods |-> U16(r.raw[6]),
                      num_bones |-> 0, szvertex |-> U8(r.raw[3])]]

version_3_header(d) ==
    LET r == ReadFields(d, 0, <<Skip(13), Unp(2), Unp(1), Unp(1), Unp(2), Unp(2),
                                Unp(4), Unp(4)>>, <<>>)
    IN IF ~r.ok THEN [st |-> "struct.error", pos |-> r.pos, short |-> TRUE, hdr |-> NoHdr]
       ELSE [st |-> "ok", pos |-> r.pos, short |-> r.short,
             hdr |-> [lod_type |-> 0, num_verts |-> AsInt(U32(r.raw[7])),
                      num_faces |-> AsInt(U32(r.raw[8])), num_lods |-> U16(r.raw[6]),
                      num_bones |-> 0, szvertex |-> U8(r.raw[3])]]

\* a v2 header that returns unless the declared header size is 12
version_2_header_checks_size(d) ==
    LET r == ReadFields(d, 0, <<Skip(13), Unp(2), Unp(1), Unp(1), Unp(4), Unp(4)>>, <<>>)
    IN IF ~r.ok THEN [st |-> "struct.error", pos |-> r.pos, short |-> TRUE, hdr |-> NoHdr]
       ELSE IF U16(r.raw[2]) # 12
            THEN [st |-> "return", pos |-> r.pos, short |-> r.short, hdr |-> NoHdr]
       ELSE [st |-> "ok", pos |-> r.pos, short |-> r.short,
             hdr |-> [lod_type |-> -1, num_verts |-> AsInt(U32(r.raw[5])),
                      num_faces |-> AsInt(U32(r.raw[6])), num_lods |-> 0,
                      num_bones |-> 0, szvertex |-> U8(r.raw[3])]]

version_2_header(d) ==
    LET r == ReadFields(d, 0, <<Skip(13), Unp(2), Unp(1), Unp(1), Unp(4), Unp(4)>>, <<>>)
    IN IF ~r.ok THEN [st |-> "struct.error", pos |-> r.pos, short |-> TRUE, hdr |-> NoHdr]
       ELSE [st |-> "ok", pos |-> r.pos, short |-> r.short,
             hdr |-> [lod_type |-> -1, num_verts |-> AsInt(U32(r.raw[5])),
                      num_faces |-> AsInt(U32(r.raw[6])), num_lods |-> 0,
                      num_bones |-> 0, szvertex |-> U8(r.raw[3])]]


(***************************************************************************)
(* version_1: str.split, int(), str.replace and json.loads.  Init draws    *)
(* the text from digits, '.', ',', '[', ']', line feeds and a few letters: *)
(* no whitespace, sign, exponent, string, object or literal.               *)
(***************************************************************************)
IsDigit(c) == c >= 48 /\ c <= 57

\* data.split('\n')
Split(s) ==
    LET IsLf(i) == s[i] = 10
        lf == Where(s, IsLf)
    IN [k \in 1..(Len(lf) + 1) |->
          SubSeq(s, IF k = 1 THEN 1 ELSE lf[k - 1] + 1,
                    IF k > Len(lf) THEN Len(s) ELSE lf[k] - 1)]

\* int(text) succeeds on a non-empty run of digits
IntOk(s) == s # <<>> /\ \A i \in 1..Len(s) : IsDigit(s[i])

\* a repair that puts a comma into the first "][" only
ReplaceBracketsFirst(s) ==
    LET IsPair(i) == s[i] = 93 /\ i + 1 <= Len(s) /\ s[i + 1] = 91
        at == Where(s, IsPair)
    IN Concat([i \in 1..Len(s) |->
                 IF at # <<>> /\ i = at[1] THEN <<93, 44>> ELSE <<s[i]>>])

\* lines[2].replace("][", "],["): "][" cannot overlap itself, so every
\* occurrence is replaced
ReplaceBrackets(s) ==
    Concat([i \in 1..Len(s) |->
              IF s[i] = 93 /\ i + 1 <= Len(s) /\ s[i + 1] = 91 THEN <<93, 44>>
              ELSE <<s[i]>>])

\* a run of digits from position i: [val, n, next], the value, the count of
\* digits and the position after them
RECURSIVE Digits(_, _, _, _)
Digits(s, i, val, n) ==
    IF i <= Len(s) /\ IsDigit(s[i]) THEN Digits(s, i + 1, val * 10 + (s[i] - 48), n + 1)
    ELSE [val |-> val, n |-> n, next |-> i]

JsonFail == [ok |-> FALSE, val |-> Num(0), next |-> 0]

\* a JSON number: 0 or a run of digits not starting with 0, then an optional
\* fraction; kept in hundredths
JsonNumber(s, i) ==
    LET ip == IF s[i] = 48 THEN [val |-> 0, n |-> 1, next |-> i + 1]
              ELSE Digits(s, i, 0, 0)
        fp == Digits(s, ip.next + 1, 0, 0)
        hasFrac == ip.next <= Len(s) /\ s[ip.next] = 46
        frac == CASE fp.n = 1 -> fp.val * 10
                  [] fp.n = 2 -> fp.val
                  [] OTHER    -> 0
    IN IF hasFrac /\ fp.n = 0 THEN JsonFail
       ELSE IF hasFrac
            THEN [ok |-> TRUE, val |-> Num(ip.val * 100 + frac), next |-> fp.next]
       ELSE [ok |-> TRUE, val |-> Num(ip.val * 100), next |-> ip.next]

RECURSIVE JsonValue(_, _)
RECURSIVE JsonElements(_, _, _)
JsonValue(s, i) ==
    IF i > Len(s) THEN JsonFail
    ELSE IF s[i] = 91
         THEN IF i + 1 <= Len(s) /\ s[i + 1] = 93
              THEN [ok |-> TRUE, val |-> [t |-> "arr", a |-> <<>>], next |-> i + 2]
              ELSE JsonElements(s, i + 1, <<>>)
    ELSE IF IsDigit(s[i]) THEN JsonNumber(s, i)
    ELSE JsonFail

JsonElements(s, i, acc) ==
    LET v == JsonValue(s, i)
    IN IF ~v.ok \/ v.next > Len(s) THEN JsonFail
       ELSE IF s[v.next] = 44 THEN JsonElements(s, v.next + 1, Append(acc, v.val))
       ELSE IF s[v.next] = 93
            THEN [ok |-> TRUE, val |-> [t |-> "arr", a |-> Append(acc, v.val)],
                  next |-> v.next + 1]
       ELSE JsonFail

\* json.loads(text): one value and nothing after it
JsonLoads(s) ==
    LET v == JsonValue(s, 1)
    IN IF v.ok /\ v.next = Len(s) + 1 THEN v ELSE JsonFail

\* version_1 up to true_faces: exc is "None" or the exception raised
version_1_parse(d) ==
    LET text == Utf8Decode(d)
        lines == Split(text.s)
        js == JsonLoads(<<91>> \o ReplaceBrackets(lines[3]) \o <<93>>)
    IN IF ~text.ok THEN [exc |-> "UnicodeDecodeError", content |-> <<>>]
       ELSE IF Len(lines) < 2 THEN [exc |-> "IndexError", content |-> <<>>]
       ELSE IF ~IntOk(lines[2]) THEN [exc |-> "ValueError", content |-> <<>>]
       ELSE IF Len(lines) < 3 THEN [exc |-> "IndexError", content |-> <<>>]
       ELSE IF ~js.ok THEN [exc |-> "JSONDecodeError", content |-> <<>>]
       ELSE [exc |-> "None", content |-> js.val.a]

\* the exception of x[0], x[1], x[2] on a JSON value, "None" when there is none
Sub3Exc(x) ==
    IF x.t # "arr" THEN "TypeError"
    ELSE IF Len(x.a) < 3 THEN "IndexError"
    ELSE "None"

\* the exception of f"vt {uv[0]} {1.0 - uv[1]} {uv[2]}"
UvExc(uv) ==
    IF uv.t # "arr" THEN "TypeError"
    ELSE IF Len(uv.a) < 2 THEN "IndexError"
    ELSE IF uv.a[2].t # "num" THEN "TypeError"
    ELSE IF Len(uv.a) < 3 THEN "IndexError"
    ELSE "None"

\* the loop over range(true_faces) of version_1
RECURSIVE V1VertLines(_, _, _, _)
V1VertLines(c, i, true_faces, acc) ==
    IF i >= true_faces THEN [exc |-> "None", v |-> acc.v, vn |-> acc.vn, vt |-> acc.vt]
    ELSE LET vert == c[i * 3 + 1]
             norm == c[i * 3 + 2]
             uv   == c[i * 3 + 3]
             e == IF Sub3Exc(vert) # "None" THEN Sub3Exc(vert)
                  ELSE IF Sub3Exc(norm) # "None" THEN Sub3Exc(norm)
                  ELSE UvExc(uv)
         IN IF e # "None" THEN [exc |-> e, v |-> acc.v, vn |-> acc.vn, vt |-> acc.vt]
            ELSE V1VertLines(c, i + 1, true_faces,
                   [v  |-> append_fix(acc.v, Line("v", <<vert.a[1], vert.a[2], vert.a[3]>>)),
                    vn |-> append_fix(acc.vn, Line("vn", <<norm.a[1], norm.a[2], norm.a[3]>>)),
                    vt |-> append_fix(acc.vt, Line("vt", <<uv.a[1], Num(FlipV(uv.a[2].n)),
                                                            uv.a[3]>>))])

Small(n) == [hi |-> 0, lo |-> n]

\* the loop over range((true_faces - 1) // 3) of version_1
RECURSIVE V1FaceLines(_, _, _)
V1FaceLines(i, n, acc) ==
    IF i >= n THEN acc
    ELSE LET p == i * 3 + 1
         IN V1FaceLines(i + 1, n,
              append_fix(acc, Line("f", <<Idx(Small(p)), Idx(Small(p)), Idx(Small(p)),
                                          Idx(Small(p + 1)), Idx(Small(p + 1)), Idx(Small(p + 1)),
                                          Idx(Small(p + 2)), Idx(Small(p + 2)), Idx(Small(p + 2))>>)))

\* a writer that makes one triangle of every three vertices, true_faces // 3
\* faces in all
version_1_write_every_triple(version, c) ==
    LET true_faces == Len(c) \div 3
        head == <<CommentLine(version)>>
        vl == V1VertLines(c, 0, true_faces, [v |-> <<>>, vn |-> <<>>, vt |-> <<>>])
    IN IF vl.exc # "None" THEN [exc |-> vl.exc, lines |-> head]
       ELSE [exc |-> "None",
             lines |-> head \o vl.v \o vl.vn \o vl.vt
                            \o V1FaceLines(0, true_faces \div 3, <<>>)]

\* version_1 from open() on
version_1_write(version, c) ==
    LET true_faces == Len(c) \div 3
        head == <<CommentLine(version)>>
        vl == V1VertLines(c, 0, true_faces, [v |-> <<>>, vn |-> <<>>, vt |-> <<>>])
    IN IF vl.exc # "None" THEN [exc |-> vl.exc, lines |-> head]
       ELSE [exc |-> "None",
             lines |-> head \o vl.v \o vl.vn \o vl.vt
                            \o V1FaceLines(0, (true_faces - 1) \div 3, <<>>)]


(***************************************************************************)
(* The handlers and convert as functions of the buffer: what a call that   *)
(* runs from its first statement to its last without interruption does.    *)
(* The outcome is [result, opened, lines]: what convert returns or raises, *)
(* whether it executed open(output_path, 'w'), and the lines the path      *)
(* holds afterwards if it did.                                             *)
(***************************************************************************)
NotOpened(res) == [result |-> res, opened |-> FALSE, lines |-> <<>>]

\* num_only_ver as every handler computes it again from data[:12]
TokenOf(d) == StrFrom8(Utf8Decode(Slice(d, 0, 12)).s)

\* the body the binary handlers share after the header h
BinaryCall(d, h, bones, lodTable) ==
    LET rv == read_vertices(d, h.pos, h.hdr.num_verts, h.hdr.szvertex, <<>>)
        bp == IF bones /\ h.hdr.num_bones > 0
              THEN StreamTell(d, rv.pos, h.hdr.num_verts * 8) ELSE rv.pos
        rf == read_faces(d, bp, h.hdr.num_faces, <<>>)
        rl == IF lodTable THEN read_lods(d, rf.pos, h.hdr.num_lods, <<>>)
              ELSE [ok |-> TRUE, pos |-> rf.pos, lods |-> <<>>]
        w  == write_obj_file(TokenOf(d), rv.verts, rf.faces, rl.lods,
                             h.hdr.lod_type, h.hdr.num_faces)
    IN IF h.st = "return" THEN NotOpened("None")
       ELSE IF h.st # "ok" THEN NotOpened(h.st)
       ELSE IF ~rv.ok \/ ~rf.ok \/ ~rl.ok THEN NotOpened("struct.error")
       ELSE [result |-> w.exc, opened |-> TRUE, lines |-> w.lines]

version_5(d) == BinaryCall(d, version_5_header(d), TRUE, TRUE)
version_4(d) == BinaryCall(d, version_4_header(d), TRUE, TRUE)
version_3(d) == BinaryCall(d, version_3_header(d), FALSE, TRUE)
version_2(d) == BinaryCall(d, version_2_header(d), FALSE, FALSE)

version_1(d) ==
    LET p == version_1_parse(d)
        w == version_1_write(TokenOf(d), p.content)
    IN IF p.exc # "None" THEN NotOpened(p.exc)
       ELSE [result |-> w.exc, opened |-> TRUE, lines |-> w.lines]

convert(buf) ==
    LET d == MarkerSlice(buf)
        version_info == Utf8Decode(Slice(d, 0, 12))
        h == Dispatch(StrFrom8(version_info.s))
    IN IF ~version_info.ok THEN NotOpened("UnicodeDecodeError")
       ELSE CASE h = "version_5" -> version_5(d)
              [] h = "version_4" -> version_4(d)
              [] h = "version_3" -> version_3(d)
              [] h = "version_2" -> version_2(d)
              [] h = "version_1" -> version_1(d)
              [] OTHER -> NotOpened("None")


(***************************************************************************)
(* The input family: buffers built field by field the way the format lays  *)
(* them out, then cut short at chosen lengths.                             *)
(***************************************************************************)
LE16(n) == <<n % 256, n \div 256>>
LE32(n) == <<n % 256, (n \div 256) % 256, 0, 0>>

FloatTable ==
    << <<0, 0, 0, 0>>, <<0, 0, 128, 62>>, <<0, 0, 0, 63>>, <<0, 0, 64, 63>>,
       <<0, 0, 128, 63>>, <<0, 0, 0, 64>>, <<0, 0, 64, 64>> >>
FloatBytes(j) == FloatTable[(j % 7) + 1]

\* vertex k: position, normal, u, v, tangent and, in the 40-byte layout, colour
VertexBytes(k, szvertex) ==
    FloatBytes(k) \o FloatBytes(k + 1) \o FloatBytes(k + 2)
    \o FloatBytes(k + 3) \o FloatBytes(k + 4) \o FloatBytes(k + 5)
    \o FloatBytes(k + 1) \o FloatBytes(k + 3)
    \o <<1, 255, 0, 127>>
    \o (IF szvertex = 40 THEN <<10, 20, 30, 40 + k>> ELSE <<>>)

\* raw face indices 0, 1, 2, 65535, 0xFFFFFFFF, 3, 4, 5, ...
RawIndex(j) ==
    CASE j = 3 -> <<255, 255, 0, 0>>
      [] j = 4 -> <<255, 255, 255, 255>>
      [] j > 4 -> LE32(j - 2)
      [] OTHER -> LE32(j)
FaceBytes(i) == RawIndex(3 * i) \o RawIndex(3 * i + 1) \o RawIndex(3 * i + 2)

AllVertexBytes(nv, szvertex) == Concat([k \in 1..nv |-> VertexBytes(k - 1, szvertex)])
AllFaceBytes(nf) == Concat([i \in 1..nf |-> FaceBytes(i - 1)])
AllLodBytes(tab) == Concat([i \in 1..Len(tab) |-> LE32(tab[i])])

Tok500 == <<53, 46, 48, 48>>
Tok400 == <<52, 46, 48, 48>>
Tok401 == <<52, 46, 48, 49>>
Tok300 == <<51, 46, 48, 48>>
Tok301 == <<51, 46, 48, 49>>
Tok200 == <<50, 46, 48, 48>>
Tok100 == <<49, 46, 48, 48>>
Tok101 == <<49, 46, 48, 49>>
SupportedTokens == {Tok500, Tok400, Tok401, Tok300, Tok301, Tok200, Tok100, Tok101}
\* '6.00', '5.01', '0.99'; '5.0' + 0xFF is not UTF-8; '5.' + U+00E9 decodes to 3 characters
OtherTokens == {<<54, 46, 48, 48>>, <<53, 46, 48, 49>>, <<48, 46, 57, 57>>,
                <<53, 46, 48, 255>>, <<53, 46, 195, 169>>}

\* the layout a token's handler expects: 5, 4, 3, 2 or 1
LayoutOf(tok) ==
    CASE tok \in {Tok400, Tok401} -> 4
      [] tok \in {Tok300, Tok301} -> 3
      [] tok = Tok200 -> 2
      [] tok \in {Tok100, Tok101} -> 1
      [] OTHER -> 5

\* the bytes after the 12-byte version text of a binary mesh
MeshBody(layout, hsz, lodt, nv, nf, tab, nb, szv) ==
    LET header ==
            CASE layout = 5 -> LE16(hsz) \o LE16(lodt) \o LE32(nv) \o LE32(nf)
                               \o LE16(Len(tab)) \o LE16(nb) \o LE32(0) \o LE16(0)
                               \o <<0>> \o <<0>> \o Rep(0, 8)
              [] layout = 4 -> LE16(hsz) \o LE16(lodt) \o LE32(nv) \o LE32(nf)
                               \o LE16(Len(tab)) \o LE16(nb) \o LE32(0) \o LE16(0)
                               \o <<0>> \o <<0>>
              [] layout = 3 -> LE16(hsz) \o <<szv>> \o <<12>> \o LE16(4)
                               \o LE16(Len(tab)) \o LE32(nv) \o LE32(nf)
              [] OTHER      -> LE16(hsz) \o <<szv>> \o <<12>> \o LE32(nv) \o LE32(nf)
        vsz == IF layout \in {4, 5} THEN 40 ELSE szv
        bones == IF layout \in {4, 5} /\ nb > 0 THEN Rep(9, 8 * nv) ELSE <<>>
        lodb == IF layout = 2 THEN <<>> ELSE AllLodBytes(tab)
    IN <<10>> \o header \o AllVertexBytes(nv, vsz) \o bones \o AllFaceBytes(nf) \o lodb

HeaderSizeOf(layout) ==
    CASE layout = 5 -> 32 [] layout = 4 -> 24 [] layout = 3 -> 16 [] OTHER -> 12

LodTables == {<<>>, <<0>>, <<0, 1>>, <<0, MaxFaces + 1>>, <<0, 1, 2>>}

\* the lengths a buffer is cut to: whole, a few bytes off the end, and a few
\* fixed lengths inside the version text and the header
Cuts(d) ==
    {Len(d)} \cup {Len(d) - k : k \in {x \in {1, 5, 13, 30} : x <= Len(d)}}
             \cup {a \in {10, 12, 13, 14, 20, 40} : a < Len(d)}

Truncated(d) == {SubSeq(d, 1, n) : n \in Cuts(d)}

\* well-formed and truncated binary meshes of every layout
BinaryInputs ==
    UNION {Truncated(Marker \o p.tok
                     \o MeshBody(LayoutOf(p.tok), HeaderSizeOf(LayoutOf(p.tok)),
                                 p.lodt, p.nv, p.nf, p.tab, p.nb, p.szv)) :
           p \in {q \in [tok : {Tok500, Tok400, Tok300, Tok200}, lodt : {0, 1},
                         nv : 0..MaxVerts, nf : 0..MaxFaces, tab : LodTables,
                         nb : {0, 1}, szv : {36, 40}] :
                    /\ LayoutOf(q.tok) \in {4, 5} => q.szv = 40
                    /\ LayoutOf(q.tok) \in {2, 3} => q.nb = 0 /\ q.lodt = 0
                    /\ LayoutOf(q.tok) = 2 => q.tab = <<>>}}

\* v4 and v5 meshes whose header-size field is wrong
HeaderSizeInputs ==
    UNION {Truncated(Marker \o p.tok
                     \o MeshBody(LayoutOf(p.tok), p.hsz, 1, p.nv, p.nv, <<>>, 0, 40)) :
           p \in [tok : {Tok500, Tok400, Tok401}, hsz : {0, 23, 24, 31, 32, 33},
                  nv : 0..1]}

\* v2 and v3 meshes whose records all carry four colour bytes (10, 20, 30,
\* 40 + k) after the tangent, under every declared record size
MeshBodyWithColour(layout, nv, nf, szv) ==
    <<10>> \o (IF layout = 3
              THEN LE16(16) \o <<szv>> \o <<12>> \o LE16(4) \o LE16(0)
                   \o LE32(nv) \o LE32(nf)
              ELSE LE16(12) \o <<szv>> \o <<12>> \o LE32(nv) \o LE32(nf))
          \o AllVertexBytes(nv, 40) \o AllFaceBytes(nf)

ColourInputs ==
    {Marker \o p.tok \o MeshBodyWithColour(LayoutOf(p.tok), p.nv, p.nf, p.szv) :
     p \in [tok : {Tok301, Tok200}, nv : 0..MaxVerts, nf : {0, 1},
            szv : {0, 36, 39, 40, 41, 44}]}

\* v2 and v3 meshes under every declared header size, face-record size and
\* (v3) LOD-table byte size; the records themselves are laid out as always
OldMeshBody(layout, hsz, szv, szface, szlod, nv, nf, tab) ==
    <<10>> \o (IF layout = 3
              THEN LE16(hsz) \o <<szv>> \o <<szface>> \o LE16(szlod) \o LE16(Len(tab))
                   \o LE32(nv) \o LE32(nf)
              ELSE LE16(hsz) \o <<szv>> \o <<szface>> \o LE32(nv) \o LE32(nf))
          \o AllVertexBytes(nv, szv) \o AllFaceBytes(nf)
          \o (IF layout = 3 THEN AllLodBytes(tab) ELSE <<>>)

SizeFieldInputs ==
    {Marker \o p.tok
        \o OldMeshBody(LayoutOf(p.tok), p.hsz, p.szv, p.szface, p.szlod, 1, MaxFaces, p.tab) :
     p \in {q \in [tok : {Tok300, Tok301, Tok200}, hsz : {0, 12, 16, 99},
                   szv : {36, 40}, szface : {0, 12, 16}, szlod : {0, 4, 8},
                   tab : {<<>>, <<0, 1>>}] :
              LayoutOf(q.tok) = 2 => q.szlod = 4 /\ q.tab = <<>>}}

\* for every supported token, a whole buffer that declares no vertex, no face
\* and no LOD entry; the v1 text is the version line, '0' and an empty line
MinimalInputs ==
    {Marker \o p.tok
        \o (IF LayoutOf(p.tok) = 1 THEN <<10, 48, 10, 10>>
            ELSE MeshBody(LayoutOf(p.tok), HeaderSizeOf(LayoutOf(p.tok)),
                          p.lodt, 0, 0, <<>>, p.nb, p.szv)) :
     p \in [tok : SupportedTokens, lodt : {0, 1}, nb : {0, 1}, szv : {36, 40}]}

MaxTextVerts == 7

Join(gs, sep) ==
    Concat([i \in 1..Len(gs) |-> IF i = 1 THEN gs[i] ELSE sep \o gs[i]])

\* '[a,b,c]' from three texts
Group(a, b, c) == <<91>> \o a \o <<44>> \o b \o <<44>> \o c \o <<93>>
Digit(n) == <<48 + (n % 10)>>

\* the three groups of vertex k: position [k+1,2,3], normal [0,1,0] and
\* texture coordinate [0.25,0.75,k%2]; bad spoils one group of the vertex
VertexGroups(k, bad) ==
    << CASE bad = "short"    -> <<91, 49, 44, 50, 93>>            \* [1,2]
         [] bad = "bare"     -> <<53>>                            \* 5
         [] bad = "unclosed" -> <<91, 49, 44, 50, 44, 51>>        \* [1,2,3
         [] OTHER -> Group(Digit(k + 1), Digit(2), Digit(3)),
       Group(Digit(0), Digit(1), Digit(0)),
       IF bad = "nested" THEN Group(<<48, 46, 50, 53>>, <<91, 49, 93>>, Digit(0))
       ELSE Group(<<48, 46, 50, 53>>, <<48, 46, 55, 53>>, Digit(k % 2)) >>

\* nv vertices, the last one spoilt by bad, then extra groups that fill no vertex
TextGroups(nv, extra, bad) ==
    Concat([k \in 1..nv |-> VertexGroups(k - 1, IF k = nv THEN bad ELSE "none")])
        \o [i \in 1..extra |-> Group(Digit(7), Digit(8), Digit(9))]

\* the bytes after the 12-byte version text of a v1 mesh
TextBody(cnt, groups, sep) == <<10>> \o cnt \o <<10>> \o Join(groups, sep) \o <<10>>

TextInputs ==
    {Marker \o p.tok \o TextBody(p.cnt, TextGroups(p.nv, p.extra, p.bad), p.sep) :
     p \in {q \in [tok : {Tok100, Tok101}, cnt : {<<57>>, <<48>>, <<120>>, <<>>},
                   nv : 0..MaxTextVerts, extra : 0..2, sep : {<<>>, <<44>>},
                   bad : {"none", "short", "bare", "unclosed", "nested"}] :
              /\ q.bad # "none" => q.nv >= 1
              /\ q.cnt # <<57>> => q.bad = "none" /\ q.extra = 0 /\ q.sep = <<>>
              /\ q.tok = Tok101 => q.bad = "none" /\ q.sep = <<>>}}
    \cup {Marker \o Tok100 \o <<32, 120, 91, 93>>
               \o TextBody(<<57>>, TextGroups(nv, 1, "none"), <<>>) : nv \in {0, 2}}
    \cup {Marker \o Tok100, Marker \o Tok100 \o <<10, 57>>,
          Marker \o Tok100 \o <<10, 57, 10, 91, 49, 44, 50, 44, 51, 93, 255>>,
          Marker \o Tok100 \o <<10, 57, 10, 10>>}

\* 'Version ', which is not the marker
NotMarker == <<86, 101, 114, 115, 105, 111, 110, 32>>

\* bytes ahead of the payload: none, '\x07ve', 'version' without its space,
\* 'versio', and two bytes that are not UTF-8
Prefixes == {<<>>, <<7, 118, 101>>, <<118, 101, 114, 115, 105, 111, 110>>,
             <<118, 101, 114, 115, 105, 111>>, <<255, 32>>}

\* every token, with and without the marker, behind a prefix or not
DispatchInputs ==
    {p.pre \o p.first8 \o p.tok
        \o (IF LayoutOf(p.tok) = 1 THEN TextBody(<<57>>, TextGroups(1, 0, "none"), <<>>)
            ELSE MeshBody(LayoutOf(p.tok), HeaderSizeOf(LayoutOf(p.tok)),
                          0, 1, 1, <<>>, 0, 40)) :
     p \in [pre : Prefixes, first8 : {Marker, NotMarker},
            tok : SupportedTokens \cup OtherTokens]}
    \cup {<<>>, Marker, Marker \o <<53, 46, 48>>, <<7>> \o Marker \o <<53, 46>>}


\* the buffers of the runs with more than one call: a v5 mesh with LOD gating,
\* a v4 mesh whose one-entry LOD table raises IndexError, a v3 mesh, a v2 mesh
\* cut short, a v1 text of four vertices and an unsupported token
CallInputs ==
    {Marker \o Tok500 \o MeshBody(5, 32, 1, 1, 2, <<0, 1>>, 1, 40),
     Marker \o Tok401 \o MeshBody(4, 24, 1, 1, 1, <<0>>, 0, 40),
     Marker \o Tok300 \o MeshBody(3, 16, 0, 2, 1, <<>>, 0, 36),
     SubSeq(Marker \o Tok200 \o MeshBody(2, 12, 0, 1, 0, <<>>, 0, 40), 1, 60),
     Marker \o Tok100 \o TextBody(<<57>>, TextGroups(4, 0, "none"), <<>>),
     Marker \o <<54, 46, 48, 48, 10>>}

Inputs ==
    BinaryInputs \cup HeaderSizeInputs \cup ColourInputs \cup SizeFieldInputs
        \cup MinimalInputs
        \cup DispatchInputs \cup TextInputs \cup CallInputs

(***************************************************************************)
(* The call convert(data, output_path), one action per phase.              *)
(***************************************************************************)

\* App.__init__, lines 372-373, and the Live Update checkbox as created at
\* line 520: unchecked, no timer pending; returned is what convert_mesh_to_obj
\* returned, "none" while it was never called
AppInit ==
    [returned |-> "none", current_mode |-> "json", checked |-> FALSE,
     live_update_running |-> FALSE, timers |-> <<>>]

\* no second call
NoCall == [pc |-> "absent"]

\* the locals of a call that has not executed its first statement, the output
\* path not holding anything yet
InitCall ==
    /\ pc = "convert"
    /\ payload = <<>>
    /\ token = <<>>
    /\ handler = "none"
    /\ calls = 0
    /\ pos = 0
    /\ hdr = NoHdr
    /\ verts = <<>>
    /\ faces = <<>>
    /\ lods = <<>>
    /\ content = <<>>
    /\ opened = FALSE
    /\ file = <<>>
    /\ result = "pending"
    /\ steps = <<>>
    /\ short = FALSE

Init ==
    /\ data \in Inputs
    /\ InitCall
    /\ log = <<>>
    /\ other = NoCall
    /\ app = AppInit

\* convert, lines 222-244: the marker slice, the token and the dispatch
Convert ==
    /\ pc = "convert"
    /\ LET d == MarkerSlice(data)
           version_info == Utf8Decode(Slice(d, 0, 12))
           num_only_ver == StrFrom8(version_info.s)
           h == Dispatch(num_only_ver)
       IN /\ payload' = d
          /\ IF ~version_info.ok
             THEN /\ result' = "UnicodeDecodeError"
                  /\ pc' = "done"
                  /\ UNCHANGED <<token, handler, calls>>
             ELSE /\ token' = num_only_ver
                  /\ handler' = h
                  /\ IF h = "none"
                     THEN result' = "None" /\ pc' = "done" /\ calls' = calls
                     ELSE result' = result /\ pc' = h /\ calls' = calls + 1
    /\ steps' = Append(steps, "convert")
    /\ UNCHANGED <<app, log, other, data, pos, hdr, verts, faces, lods, content, opened, file, short>>

\* the outcome of a handler's header
Header(h, name) ==
    /\ pos' = h.pos
    /\ hdr' = h.hdr
    /\ short' = h.short
    /\ steps' = Append(steps, name)
    /\ CASE h.st = "ok"     -> pc' = "vertices" /\ result' = result
         [] h.st = "return" -> pc' = "done" /\ result' = "None"
         [] OTHER           -> pc' = "done" /\ result' = h.st
    /\ UNCHANGED <<app, log, other, data, payload, token, handler, calls, verts, faces, lods,
                   content, opened, file>>

Version5Header == pc = "version_5" /\ Header(version_5_header(payload), "version_5")
Version4Header == pc = "version_4" /\ Header(version_4_header(payload), "version_4")
Version3Header == pc = "version_3" /\ Header(version_3_header(payload), "version_3")
Version2Header == pc = "version_2" /\ Header(version_2_header(payload), "version_2")

HasBones == handler \in {"version_4", "version_5"}
HasLods  == handler \in {"version_3", "version_4", "version_5"}

\* a reader that writes each vertex to the output path as soon as it is read,
\* before the faces are read
ReadVerticesStreams ==
    /\ pc = "vertices"
    /\ LET r == read_vertices(payload, pos, hdr.num_verts, hdr.szvertex, <<>>)
       IN /\ pos' = r.pos
          /\ short' = (short \/ ~r.ok)
          /\ verts' = r.verts
          /\ opened' = TRUE
          /\ file' = <<CommentLine(token)>> \o VertLines(r.verts, "v", <<>>)
          /\ IF r.ok
             THEN /\ pc' = IF HasBones THEN "bones" ELSE "faces"
                  /\ result' = result
             ELSE /\ pc' = "done"
                  /\ result' = "struct.error"
    /\ steps' = Append(steps, "read_vertices")
    /\ UNCHANGED <<app, log, other, data, payload, token, handler, calls, hdr, faces, lods,
                   content>>

ReadVertices ==
    /\ pc = "vertices"
    /\ LET r == read_vertices(payload, pos, hdr.num_verts, hdr.szvertex, <<>>)
       IN /\ pos' = r.pos
          /\ short' = (short \/ ~r.ok)
          /\ IF r.ok
             THEN /\ verts' = r.verts
                  /\ pc' = IF HasBones THEN "bones" ELSE "faces"
                  /\ result' = result
             ELSE /\ verts' = verts
                  /\ pc' = "done"
                  /\ result' = "struct.error"
    /\ steps' = Append(steps, "read_vertices")
    /\ UNCHANGED <<app, log, other, data, payload, token, handler, calls, hdr, faces, lods,
                   content, opened, file>>

\* a skip of 8 bytes per vertex whatever the bone count
SkipBonesAlways ==
    /\ pc = "bones"
    /\ pos' = StreamTell(payload, pos, hdr.num_verts * 8)
    /\ short' = (short \/ pos + hdr.num_verts * 8 > Len(payload))
    /\ pc' = "faces"
    /\ steps' = Append(steps, "bones")
    /\ UNCHANGED <<app, log, other, data, payload, token, handler, calls, hdr, verts, faces, lods,
                   content, opened, file, result>>

\* if num_bones > 0: stream.read(int(num_verts*8))
SkipBones ==
    /\ pc = "bones"
    /\ pos' = IF hdr.num_bones > 0 THEN StreamTell(payload, pos, hdr.num_verts * 8)
              ELSE pos
    /\ short' = (short \/ (hdr.num_bones > 0 /\ pos + hdr.num_verts * 8 > Len(payload)))
    /\ pc' = "faces"
    /\ steps' = Append(steps, "bones")
    /\ UNCHANGED <<app, log, other, data, payload, token, handler, calls, hdr, verts, faces, lods,
                   content, opened, file, result>>

ReadFaces ==
    /\ pc = "faces"
    /\ LET r == read_faces(payload, pos, hdr.num_faces, <<>>)
       IN /\ pos' = r.pos
          /\ short' = (short \/ ~r.ok)
          /\ IF r.ok
             THEN /\ faces' = r.faces
                  /\ pc' = IF HasLods THEN "lods" ELSE "write"
                  /\ result' = result
             ELSE /\ faces' = faces
                  /\ pc' = "done"
                  /\ result' = "struct.error"
    /\ steps' = Append(steps, "read_faces")
    /\ UNCHANGED <<app, log, other, data, payload, token, handler, calls, hdr, verts, lods,
                   content, opened, file>>

ReadLods ==
    /\ pc = "lods"
    /\ LET r == read_lods(payload, pos, hdr.num_lods, <<>>)
       IN /\ pos' = r.pos
          /\ short' = (short \/ ~r.ok)
          /\ IF r.ok
             THEN lods' = r.lods /\ pc' = "write" /\ result' = result
             ELSE lods' = lods /\ pc' = "done" /\ result' = "struct.error"
    /\ steps' = Append(steps, "read_lods")
    /\ UNCHANGED <<app, log, other, data, payload, token, handler, calls, hdr, verts, faces,
                   content, opened, file>>

\* a writer that opens the path for appending instead of truncating it
WriteObjAppend ==
    /\ pc = "write"
    /\ LET w == write_obj_file(token, verts, faces, lods, hdr.lod_type, hdr.num_faces)
       IN /\ opened' = TRUE
          /\ file' = file \o w.lines
          /\ result' = w.exc
    /\ pc' = "done"
    /\ steps' = Append(steps, "write")
    /\ UNCHANGED <<app, log, other, data, payload, token, handler, calls, pos, hdr, verts,
                   faces, lods, content, short>>

\* a writer that takes the vertex list from a module-level list, which holds
\* the vertices of whichever call decoded last
WriteObjSharedList ==
    /\ pc = "write"
    /\ LET vs == IF other.pc \notin {"absent", "convert"} /\ other.verts # <<>>
                 THEN other.verts ELSE verts
           w == write_obj_file(token, vs, faces, lods, hdr.lod_type, hdr.num_faces)
       IN /\ opened' = TRUE
          /\ file' = w.lines
          /\ result' = w.exc
    /\ pc' = "done"
    /\ steps' = Append(steps, "write")
    /\ UNCHANGED <<app, log, other, data, payload, token, handler, calls, pos, hdr, verts,
                   faces, lods, content, short>>

\* write_obj_file, from open() to the close at the end of the with block
WriteObj ==
    /\ pc = "write"
    /\ LET w == write_obj_file(token, verts, faces, lods, hdr.lod_type, hdr.num_faces)
       IN /\ opened' = TRUE
          /\ file' = w.lines
          /\ result' = w.exc
    /\ pc' = "done"
    /\ steps' = Append(steps, "write")
    /\ UNCHANGED <<app, log, other, data, payload, token, handler, calls, pos, hdr, verts, faces,
                   lods, content, short>>

\* version_1, lines 189-195
Version1Parse ==
    /\ pc = "version_1"
    /\ LET r == version_1_parse(payload)
       IN /\ content' = r.content
          /\ IF r.exc = "None" THEN pc' = "write_v1" /\ result' = result
             ELSE pc' = "done" /\ result' = r.exc
    /\ steps' = Append(steps, "version_1")
    /\ UNCHANGED <<app, log, other, data, payload, token, handler, calls, pos, hdr, verts, faces,
                   lods, opened, file, short>>

\* version_1, lines 197-219
Version1Write ==
    /\ pc = "write_v1"
    /\ LET w == version_1_write(token, content)
       IN /\ opened' = TRUE
          /\ file' = w.lines
          /\ result' = w.exc
    /\ pc' = "done"
    /\ steps' = Append(steps, "write")
    /\ UNCHANGED <<app, log, other, data, payload, token, handler, calls, pos, hdr, verts, faces,
                   lods, content, short>>

Next ==
    \/ Convert
    \/ Version5Header
    \/ Version4Header
    \/ Version3Header
    \/ Version2Header
    \/ ReadVertices
    \/ SkipBones
    \/ ReadFaces
    \/ ReadLods
    \/ WriteObj
    \/ Version1Parse
    \/ Version1Write

Spec == Init /\ [][Next]_vars

(***************************************************************************)
(* Several calls.  A call shares nothing with another one but what the     *)
(* caller hands over: the buffer and the output path.  In SpecSeq the      *)
(* caller calls convert again after a call ended, with any buffer, on a    *)
(* new path or on the path of the call before, which then still holds what *)
(* that call left there.  In SpecPar two calls on their own buffers and    *)
(* paths run in two threads, and the interpreter may switch threads        *)
(* between any two phases.                                                 *)
(***************************************************************************)
MaxCalls == 3

\* the locals of the running call
Running ==
    [data |-> data, pc |-> pc, payload |-> payload, token |-> token,
     handler |-> handler, calls |-> calls, pos |-> pos, hdr |-> hdr,
     verts |-> verts, faces |-> faces, lods |-> lods, content |-> content,
     opened |-> opened, file |-> file, result |-> result, steps |-> steps,
     short |-> short]

\* the locals of a call on buffer d that has not started, its output path
\* holding the lines f
NewCall(d, f) ==
    [data |-> d, pc |-> "convert", payload |-> <<>>, token |-> <<>>,
     handler |-> "none", calls |-> 0, pos |-> 0, hdr |-> NoHdr,
     verts |-> <<>>, faces |-> <<>>, lods |-> <<>>, content |-> <<>>,
     opened |-> FALSE, file |-> f, result |-> "pending", steps |-> <<>>,
     short |-> FALSE]

\* the call with locals c becomes the running one
Resume(c) ==
    /\ data' = c.data /\ pc' = c.pc /\ payload' = c.payload /\ token' = c.token
    /\ handler' = c.handler /\ calls' = c.calls /\ pos' = c.pos /\ hdr' = c.hdr
    /\ verts' = c.verts /\ faces' = c.faces /\ lods' = c.lods
    /\ content' = c.content /\ opened' = c.opened /\ file' = c.file
    /\ result' = c.result /\ steps' = c.steps /\ short' = c.short

\* how a call ended
Ended(c) ==
    [data |-> c.data, result |-> c.result,
     succeeded |-> (c.result = "None" /\ c.opened), file |-> c.file]

\* the caller calls convert once more
CallAgain ==
    /\ pc = "done"
    /\ Len(log) + 1 < MaxCalls
    /\ log' = Append(log, Ended(Running))
    /\ \E d \in CallInputs, f \in {<<>>, file} : Resume(NewCall(d, f))
    /\ UNCHANGED <<app, other>>

InitSeq ==
    /\ data \in CallInputs
    /\ InitCall
    /\ log = <<>>
    /\ other = NoCall
    /\ app = AppInit

NextSeq == Next \/ CallAgain

SpecSeq == InitSeq /\ [][NextSeq]_vars

\* the interpreter suspends the running thread and resumes the other one
Switch ==
    /\ other.pc # "absent"
    /\ other' = Running
    /\ Resume(other)
    /\ UNCHANGED <<app, log>>

InitPar ==
    /\ data \in CallInputs
    /\ InitCall
    /\ log = <<>>
    /\ other \in {NewCall(d, <<>>) : d \in CallInputs}
    /\ app = AppInit

NextPar == Next \/ Switch

SpecPar == InitPar /\ [][NextPar]_vars


(***************************************************************************)
(* Vocabulary of the properties.                                           *)
(***************************************************************************)

(***************************************************************************)
(* test.py, App.convert_mesh_to_obj (lines 881-894).  The method creates   *)
(* an empty temporary file, calls convert on its path and looks at what    *)
(* came of it.  In SpecCaller the call of convert is the one the method    *)
(* made: the path exists and is empty when convert starts.                 *)
(***************************************************************************)
\* os.path.getsize(obj_path): every line of the file holds at least its
\* newline, so the size is 0 exactly for a file of no lines
GetSize(f) == Len(f)

\* what is left of the method once convert raised or returned, whatever was
\* raised being ignored: the path is returned whenever the file is not empty
ConvertMeshToObjReturnBySizeAlone ==
    /\ pc = "done"
    /\ app.returned = "pending"
    /\ app' = [app EXCEPT !.returned = IF GetSize(file) > 0 THEN "obj_path" ELSE "None"]
    /\ UNCHANGED <<data, pc, payload, token, handler, calls, pos, hdr, verts, faces,
                   lods, content, opened, file, result, steps, short, log, other>>

\* lines 885-894: the except branch returns None; otherwise the path is
\* returned if it exists (it does: NamedTemporaryFile created it with
\* delete=False) and its size is greater than 0, None if not
ConvertMeshToObjReturn ==
    /\ pc = "done"
    /\ app.returned = "pending"
    /\ app' = [app EXCEPT !.returned =
                  IF result # "None" THEN "None"
                  ELSE IF GetSize(file) > 0 THEN "obj_path" ELSE "None"]
    /\ UNCHANGED <<data, pc, payload, token, handler, calls, pos, hdr, verts, faces,
                   lods, content, opened, file, result, steps, short, log, other>>

\* lines 882-885: the temporary file is created and convert is called
InitCaller ==
    /\ data \in Inputs
    /\ InitCall
    /\ log = <<>>
    /\ other = NoCall
    /\ app = [AppInit EXCEPT !.returned = "pending"]

NextCaller == Next \/ ConvertMeshToObjReturn

SpecCaller == InitCaller /\ [][NextCaller]_vars

(***************************************************************************)
(* test.py, the live update of the cache browser.  Everything here runs in *)
(* the GUI thread, one handler at a time: the two mode actions of the menu *)
(* (lines 413-414), the slot of the Live Update checkbox (line 520) and    *)
(* the expiry of a QTimer.singleShot.  app.timers holds, oldest first, the *)
(* milliseconds each pending single-shot timer of update_cache_live still  *)
(* has to run.  What the handlers do to the widgets and to the file list   *)
(* is left out; whether the cache directory exists when a timer expires is *)
(* the environment's choice.                                               *)
(***************************************************************************)
\* QTimer.singleShot(2000, self.update_cache_live)
Interval == 2000

\* at most this many timers are followed
MaxTimers == 3

SingleShot(a) == [a EXCEPT !.timers = Append(@, Interval)]

\* toggle_live_update, lines 1468-1475
toggle_live_update(a) ==
    IF a.current_mode = "cache" /\ a.checked /\ ~a.live_update_running
    THEN SingleShot([a EXCEPT !.live_update_running = TRUE])
    ELSE IF ~a.checked
         THEN [a EXCEPT !.live_update_running = FALSE]
         ELSE a

\* the call of no convert is under way
NoConvert ==
    /\ data = <<>>
    /\ pc = "absent"
    /\ payload = <<>> /\ token = <<>> /\ handler = "none" /\ calls = 0
    /\ pos = 0 /\ hdr = NoHdr /\ verts = <<>> /\ faces = <<>> /\ lods = <<>>
    /\ content = <<>> /\ opened = FALSE /\ file = <<>> /\ result = "pending"
    /\ steps = <<>> /\ short = FALSE

\* what belongs to the calls of convert
callvars == <<data, pc, payload, token, handler, calls, pos, hdr, verts, faces,
              lods, content, opened, file, result, steps, short, log, other>>

\* set_json_mode, lines 1314-1320
set_json_mode ==
    /\ app' = [app EXCEPT !.current_mode = "json", !.live_update_running = FALSE]
    /\ UNCHANGED callvars

\* set_cache_mode, lines 1322-1330
set_cache_mode ==
    LET a == toggle_live_update([app EXCEPT !.current_mode = "cache"])
    IN /\ Len(a.timers) <= MaxTimers
       /\ app' = a
       /\ UNCHANGED callvars

\* the user clicks the Live Update checkbox: its state flips and the toggled
\* signal runs toggle_live_update
live_update_cb_toggled ==
    LET a == toggle_live_update([app EXCEPT !.checked = ~@])
    IN /\ Len(a.timers) <= MaxTimers
       /\ app' = a
       /\ UNCHANGED callvars

\* update_cache_live, lines 1477-1532, run by the timer that is due: it stops
\* the chain when the mode or the checkbox says so or the directory is
\* missing, and arms the next timer on every other path
update_cache_live ==
    /\ app.timers # <<>> /\ Head(app.timers) = 0
    /\ LET a == [app EXCEPT !.timers = Tail(@)]
       IN IF a.current_mode # "cache" \/ ~a.checked
          THEN app' = [a EXCEPT !.live_update_running = FALSE]
          ELSE \E dir_exists \in BOOLEAN :
                  IF ~dir_exists
                  THEN app' = [a EXCEPT !.live_update_running = FALSE]
                  ELSE app' = SingleShot(a)
    /\ UNCHANGED callvars

\* half a second passes
Tick ==
    /\ \E i \in 1..Len(app.timers) : app.timers[i] > 0
    /\ app' = [app EXCEPT !.timers =
                  [i \in 1..Len(@) |-> IF @[i] >= 500 THEN @[i] - 500 ELSE 0]]
    /\ UNCHANGED callvars

InitLive ==
    /\ NoConvert
    /\ log = <<>>
    /\ other = NoCall
    /\ app = AppInit

NextLive ==
    \/ set_json_mode
    \/ set_cache_mode
    \/ live_update_cb_toggled
    \/ update_cache_live
    \/ Tick

SpecLive == InitLive /\ [][NextLive]_vars

Done == pc = "done"
Ran(step) == \E i \in 1..Len(steps) : steps[i] = step
LastStep == IF steps = <<>> THEN "" ELSE steps[Len(steps)]

Binary == handler \in {"version_2", "version_3", "version_4", "version_5"}

\* the serializer ran to its end: the call is a successful conversion
Succeeded == Done /\ Ran("write") /\ result = "None"
\* the call ended any other way
Failed == Done /\ ~Succeeded

\* how the caller sees the failure kinds of the design: an exception of the
\* class the code raises for that cause; "untyped" is any other exception, and
\* "None" is convert returning normally
ErrorKind ==
    CASE result = "None" -> "None"
      [] result = "struct.error" -> "UnexpectedEndOfBuffer"
      [] result = "UnicodeDecodeError" /\ ~Ran("version_1") -> "MalformedHeader"
      [] result = "UnicodeDecodeError" /\ Ran("version_1") -> "MalformedPayload"
      [] result = "JSONDecodeError" -> "MalformedPayload"
      [] OTHER -> "untyped"

\* convert got past data[:12].decode('utf-8'), so num_only_ver exists
TokenRead == Ran("convert") /\ ~(LastStep = "convert" /\ result = "UnicodeDecodeError")

CountKind(f, kind) == Cardinality({i \in 1..Len(f) : f[i].kind = kind})

(***************************************************************************)
(* C1: whenever convert fails, the output path holds either nothing written*)
(* by this call or the complete OBJ text; never a partially written file.  *)
(* The complete text is written only by a serializer that ran to its end,  *)
(* which a failed call did not.                                            *)
(***************************************************************************)
C1_NoPartialFileOnFailure == Failed => file = <<>>

(***************************************************************************)
(* C2: in every binary decoder a read or skip that asks for more bytes     *)
(* than remain makes the decode fail with UnexpectedEndOfBuffer and        *)
(* nothing is serialized; a short skip is never silently accepted.         *)
(***************************************************************************)
C2_ShortReadFails ==
    (Binary /\ Done /\ short) =>
        (ErrorKind = "UnexpectedEndOfBuffer" /\ ~opened /\ file = <<>>)

(***************************************************************************)
(* C3: every outcome of convert is success or exactly one of the four      *)
(* typed failures, and a failed call is never reported like a successful   *)
(* one.                                                                    *)
(***************************************************************************)
C3_TypedOutcome ==
    Done =>
        /\ Succeeded => ErrorKind = "None"
        /\ Failed => ErrorKind \in {"UnsupportedVersion", "MalformedHeader",
                                    "UnexpectedEndOfBuffer", "MalformedPayload"}

(***************************************************************************)
(* C4: convert dispatches on characters 8 to 11 of the first 12 payload    *)
(* bytes decoded as UTF-8: '5.00' runs version_5, '4.00' and '4.01'        *)
(* version_4, '3.00' and '3.01' version_3, '2.00' version_2, '1.00' and    *)
(* '1.01' version_1; at most one handler runs and it is the one the table  *)
(* names.                                                                  *)
(***************************************************************************)
TableHandler(tok) ==
    IF tok = Tok500 THEN "version_5"
    ELSE IF tok \in {Tok400, Tok401} THEN "version_4"
    ELSE IF tok \in {Tok300, Tok301} THEN "version_3"
    ELSE IF tok = Tok200 THEN "version_2"
    ELSE IF tok \in {Tok100, Tok101} THEN "version_1"
    ELSE "none"

HandlerSteps == {"version_1", "version_2", "version_3", "version_4", "version_5"}

C4_Dispatch ==
    TokenRead =>
        /\ token = StrFrom8(Utf8Decode(Slice(payload, 0, 12)).s)
        /\ handler = TableHandler(token)
        /\ calls = (IF TableHandler(token) = "none" THEN 0 ELSE 1)
        /\ \A i \in 1..Len(steps) :
              steps[i] \in HandlerSteps => steps[i] = TableHandler(token)
        /\ pc \in HandlerSteps => pc = TableHandler(token)
        /\ (Done /\ TableHandler(token) # "none") => Ran(TableHandler(token))

C4_Witness ==
    /\ token = Tok401 /\ Ran("version_4")
    /\ Len(data) > Len(payload)

(***************************************************************************)
(* C5: for every version token outside the table, convert fails with       *)
(* UnsupportedVersion, the caller is informed of the failure, no handler   *)
(* runs and the output path is never opened or written.                    *)
(***************************************************************************)
C5_UnsupportedVersion ==
    (Done /\ TokenRead /\ token \notin SupportedTokens) =>
        /\ ErrorKind = "UnsupportedVersion"
        /\ calls = 0
        /\ ~opened /\ file = <<>>


\* the part of C5 that does not depend on how the failure is reported
UnsupportedRunsNothing ==
    (Done /\ TokenRead /\ token \notin SupportedTokens) =>
        (calls = 0 /\ steps = <<"convert">> /\ ~opened /\ file = <<>>)

(***************************************************************************)
(* C6: a v5 buffer whose header-size field is not 32, and a v4 buffer      *)
(* whose header-size field is not 24, fails with MalformedHeader; the      *)
(* check comes before any other header field, vertex, face or LOD entry is *)
(* read, and the output path is never opened or written.                   *)
(***************************************************************************)
\* the header-size field: the 16-bit value at offset 13 of the payload
SizeField == payload[14] + 256 * payload[15]

WrongHeaderSize ==
    /\ Len(payload) >= 15
    /\ \/ handler = "version_5" /\ Ran("version_5") /\ SizeField # 32
       \/ handler = "version_4" /\ Ran("version_4") /\ SizeField # 24

\* what the header-size branch does: it stops at offset 15 with nothing read
\* and nothing opened
StoppedAtSizeCheck ==
    /\ Done
    /\ steps = <<"convert", handler>>
    /\ pos = 15
    /\ hdr = NoHdr /\ verts = <<>> /\ faces = <<>> /\ lods = <<>>
    /\ ~opened /\ file = <<>>

C6_HeaderSizeMismatch ==
    WrongHeaderSize => (StoppedAtSizeCheck /\ ErrorKind = "MalformedHeader")

\* the part of C6 that does not depend on how the failure is reported
WrongSizeStopsFirst == WrongHeaderSize => StoppedAtSizeCheck

(***************************************************************************)
(* C7: in every binary version, a buffer that ends before the declared     *)
(* number of complete vertex records was read (a cut inside a record       *)
(* included) makes the decode fail with UnexpectedEndOfBuffer, and no      *)
(* output carries a vertex list shorter than the declared count: a file    *)
(* that holds any v, vn or vt line, or that a successful call wrote, holds *)
(* exactly the declared number of each.                                    *)
(***************************************************************************)
\* where the first vertex record starts, and the bytes one record takes
VertexStart ==
    Min(Len(payload),
        CASE handler = "version_5" -> 45
          [] handler = "version_4" -> 37
          [] handler = "version_3" -> 29
          [] OTHER -> 25)
RecordBytes == IF hdr.szvertex = 40 THEN 40 ELSE 36

VerticesCutShort == Len(payload) < VertexStart + hdr.num_verts * RecordBytes

IsFaceLine(ln) == ln.kind = "f"
FaceLinesOf(f) == SelectSeq(f, IsFaceLine)

\* the face lines are the first n decoded faces, in order
EmitsFirstFaces(n) ==
    /\ n <= Len(faces)
    /\ Len(FaceLinesOf(file)) = n
    /\ \A i \in 1..n :
          FaceLinesOf(file)[i].w =
              <<Idx(faces[i].a), Idx(faces[i].a), Idx(faces[i].a),
                Idx(faces[i].b), Idx(faces[i].b), Idx(faces[i].b),
                Idx(faces[i].c), Idx(faces[i].c), Idx(faces[i].c)>>

LodGated == lods # <<>> /\ hdr.lod_type > 0

C8_LodPolicy ==
    (Binary /\ Done /\ Ran("write")) =>
        IF LodGated
        THEN Len(lods) >= 2 /\ EmitsFirstFaces(lods[2].hi * 65536 + lods[2].lo)
        ELSE EmitsFirstFaces(hdr.num_faces)


(***************************************************************************)
(* C9: on every successful conversion the output is, in this order, one    *)
(* comment line naming the version token, V lines 'v x y z', V lines       *)
(* 'vn x y z', V lines 'vt u v 0' and the face lines, V being the decoded  *)
(* vertex count; the k-th v, vn and vt lines belong to vertex k, and every *)
(* face line is 'f a/a/a b/b/b c/c/c'.                                     *)
(***************************************************************************)
DecodedVertexCount ==
    IF handler = "version_1" THEN Len(content) \div 3 ELSE Len(verts)

\* the values of vertex k as the decoder holds them: position, normal, (u, v)
PositionOf(k) ==
    IF handler = "version_1" THEN SubSeq(content[3 * k - 2].a, 1, 3)
    ELSE <<Num(verts[k].px), Num(verts[k].py), Num(verts[k].pz)>>
NormalOf(k) ==
    IF handler = "version_1" THEN SubSeq(content[3 * k - 1].a, 1, 3)
    ELSE <<Num(verts[k].nx), Num(verts[k].ny), Num(verts[k].nz)>>
TexUVOf(k) ==
    IF handler = "version_1"
    THEN <<content[3 * k].a[1], Num(100 - content[3 * k].a[2].n)>>
    ELSE <<Num(verts[k].tu), Num(verts[k].tv)>>
\* the third texture component the decoder holds: the array's third element
\* in version_1, 0.0 in the binary versions
TexWOf(k) ==
    IF handler = "version_1" THEN content[3 * k].a[3] ELSE Num(0)

\* the layout of the file, the third word of the vt lines left open
OutputLayout ==
    LET V == DecodedVertexCount
    IN /\ Len(file) >= 1 + 3 * V
       /\ file[1] = [kind |-> "#", w |-> <<[t |-> "str", s |-> token]>>]
       /\ CountKind(file, "#") = 1
       /\ \A k \in 1..V :
             /\ file[1 + k].kind = "v" /\ file[1 + k].w = PositionOf(k)
             /\ file[1 + V + k].kind = "vn" /\ file[1 + V + k].w = NormalOf(k)
             /\ file[1 + 2 * V + k].kind = "vt"
             /\ Len(file[1 + 2 * V + k].w) = 3
             /\ SubSeq(file[1 + 2 * V + k].w, 1, 2) = TexUVOf(k)
       /\ \A i \in (2 + 3 * V)..Len(file) :
             /\ file[i].kind = "f"
             /\ Len(file[i].w) = 9
             /\ \A j \in {1, 4, 7} :
                   file[i].w[j] = file[i].w[j + 1] /\ file[i].w[j] = file[i].w[j + 2]

\* the claim as made: every vt line ends in 0
C9_OutputLayoutVtZero ==
    Succeeded =>
        /\ OutputLayout
        /\ \A k \in 1..DecodedVertexCount :
              file[1 + 2 * DecodedVertexCount + k].w[3] = Num(0)

\* C9 as amended: the vt lines are 'vt u v w', w being 0 in the binary
\* versions and the third element of the vertex's texture array in version_1
C9_OutputLayout ==
    Succeeded =>
        /\ OutputLayout
        /\ \A k \in 1..DecodedVertexCount :
              file[1 + 2 * DecodedVertexCount + k].w[3] = TexWOf(k)

\* a version_1 file with two vertices, the second with third component 1,
\* and a binary file with vertices and faces
C9_Witness ==
    /\ Succeeded
    /\ \/ /\ handler = "version_1" /\ DecodedVertexCount >= 4
          /\ file[1 + 2 * DecodedVertexCount + 2].w[3] = Num(100)
          /\ CountKind(file, "f") >= 1
       \/ /\ handler = "version_5" /\ DecodedVertexCount >= 2
          /\ CountKind(file, "f") >= 2

(***************************************************************************)
(* C10: in every face record of every binary version each raw unsigned     *)
(* 32-bit index r is decoded as r + 1, the order a, b, c and the order of  *)
(* the records kept; the result is at least 1 and the addition never wraps *)
(* (raw 0xFFFFFFFF decodes to 4294967296, not 0).                          *)
(***************************************************************************)
\* the raw index at byte offset o of the payload, as 16-bit halves
RawLo(o) == payload[o + 1] + 256 * payload[o + 2]
RawHi(o) == payload[o + 3] + 256 * payload[o + 4]

\* w is r + 1 for the raw index r at offset o, in unbounded arithmetic
IsRawPlusOne(w, o) ==
    /\ w.lo = (RawLo(o) + 1) % 65536
    /\ w.hi = RawHi(o) + ((RawLo(o) + 1) \div 65536)
    /\ w.hi > 0 \/ w.lo >= 1

\* right after read_faces returned, the cursor is behind the last record
C10_FaceIndexShift ==
    (Binary /\ LastStep = "read_faces" /\ ~Done) =>
        /\ Len(faces) = hdr.num_faces
        /\ \A i \in 1..Len(faces) :
              LET o == pos - 12 * Len(faces) + 12 * (i - 1)
              IN /\ IsRawPlusOne(faces[i].a, o)
                 /\ IsRawPlusOne(faces[i].b, o + 4)
                 /\ IsRawPlusOne(faces[i].c, o + 8)

\* raw 0xFFFFFFFF and raw 0x0000FFFF were decoded
C10_Witness ==
    /\ Binary /\ LastStep = "read_faces" /\ ~Done
    /\ \E i \in 1..Len(faces) :
          /\ faces[i].b = [hi |-> 65536, lo |-> 0]
          /\ faces[i].a = [hi |-> 1, lo |-> 0]

(***************************************************************************)
(* C11: for every vertex of every decoder the emitted texture coordinate   *)
(* is (u, 1 - raw_v, w): u is the raw value unchanged, the V component is  *)
(* flipped exactly once (in the decoder, never again in the serializer),   *)
(* and w is 0 in the binary versions and the third element of the texture  *)
(* array in version_1.                                                     *)
(***************************************************************************)
\* where record k of a binary payload starts (0-based byte offset)
RecordStart(k) == VertexStart + (k - 1) * RecordBytes

\* the raw u and v of record k: the floats at offsets 24 and 28 of the record
RawU(k) == F32(SubSeq(payload, RecordStart(k) + 25, RecordStart(k) + 28))
RawV(k) == F32(SubSeq(payload, RecordStart(k) + 29, RecordStart(k) + 32))

\* the k-th vt line of a complete file
VtLine(k) == file[1 + 2 * DecodedVertexCount + k]

C11_TexCoordFlip ==
    /\ (Binary /\ Ran("read_vertices")) =>
          \A k \in 1..Len(verts) :
              /\ verts[k].tu = RawU(k)
              /\ verts[k].tv = 100 - RawV(k)
              /\ verts[k].tw = 0
    /\ (Binary /\ Succeeded) =>
          \A k \in 1..Len(verts) :
              VtLine(k) = Line("vt", <<Num(RawU(k)), Num(100 - RawV(k)), Num(0)>>)
    /\ (handler = "version_1" /\ Succeeded) =>
          \A k \in 1..DecodedVertexCount :
              VtLine(k) = Line("vt", <<content[3 * k].a[1],
                                       Num(100 - content[3 * k].a[2].n),
                                       content[3 * k].a[3]>>)

\* raw (0.25, 0.75) was emitted as 'vt 0.25 0.25 0' by a binary decoder
C11_Witness ==
    /\ Binary /\ Succeeded
    /\ \E k \in 1..Len(verts) :
          /\ RawU(k) = 25 /\ RawV(k) = 75
          /\ VtLine(k) = Line("vt", <<Num(25), Num(25), Num(0)>>)

(***************************************************************************)
(* C12: read_vertices with record size 40 reads four colour bytes after    *)
(* the tangent of every vertex and keeps them as (r, g, b, a); with any    *)
(* other record size every vertex gets (255, 255, 255, 255) whatever bytes *)
(* follow the tangent, and the cursor consumes no colour bytes: a record   *)
(* takes 36 bytes.                                                         *)
(***************************************************************************)
ColourOf(v) == <<v.r, v.g, v.b, v.a>>

C12_ColourDefault ==
    (Binary /\ LastStep = "read_vertices" /\ ~Done) =>
        /\ Len(verts) = hdr.num_verts
        /\ IF hdr.szvertex = 40
           THEN /\ pos = VertexStart + 40 * Len(verts)
                /\ \A k \in 1..Len(verts) :
                      ColourOf(verts[k]) =
                          SubSeq(payload, VertexStart + 40 * (k - 1) + 37,
                                          VertexStart + 40 * k)
           ELSE /\ pos = VertexStart + 36 * Len(verts)
                /\ \A k \in 1..Len(verts) :
                      ColourOf(verts[k]) = <<255, 255, 255, 255>>

\* a record of declared size 44 whose tangent is followed by the bytes 10,
\* 20, 30, 40 got the default colour
C12_Witness ==
    /\ Binary /\ LastStep = "read_vertices" /\ ~Done /\ Len(verts) >= 1
    /\ hdr.szvertex = 44 /\ ColourOf(verts[1]) = <<255, 255, 255, 255>>
    /\ Slice(payload, VertexStart + 36, VertexStart + 40) = <<10, 20, 30, 40>>

\* a 40-byte record kept the bytes 10, 20, 30, 40
ColourKept ==
    /\ Binary /\ LastStep = "read_vertices" /\ ~Done /\ Len(verts) >= 1
    /\ hdr.szvertex = 40 /\ ColourOf(verts[1]) = <<10, 20, 30, 40>>

(***************************************************************************)
(* C13: for any byte prefix P that does not contain the marker 'version '  *)
(* and any payload M that begins with it, convert(P + M) takes the same    *)
(* dispatch decision and writes the same output as convert(M): the payload *)
(* is cut at the first occurrence of the marker, and P and the start of M  *)
(* never form an earlier one.                                              *)
(***************************************************************************)
\* data = P + M with Len(P) = k, M beginning with the marker and P holding none
SplitsAt(k) ==
    /\ Slice(data, k, k + Len(Marker)) = Marker
    /\ Find(Slice(data, 0, k), Marker) = -1

\* the handler convert(M) enters, "none" when it enters none
DecisionOn(M) ==
    IF Utf8Decode(Slice(M, 0, 12)).ok THEN Dispatch(TokenOf(M)) ELSE "none"

\* the call at hand ended the way the uninterrupted call on buffer M ends
EndsLike(M) ==
    LET alone == convert(M)
    IN /\ result = alone.result
       /\ opened = alone.opened
       /\ opened => file = alone.lines

C13_PrefixIgnored ==
    Done =>
        \A k \in 0..Len(data) :
            SplitsAt(k) =>
                LET M == Slice(data, k, Len(data))
                IN /\ payload = M
                   /\ handler = DecisionOn(M)
                   /\ EndsLike(M)

\* the prefix 'version' (no space) ahead of a v5 mesh that was converted, and
\* the prefix 'versio' ahead of a v1 mesh
C13_Witness ==
    /\ Succeeded /\ handler = "version_5" /\ file # <<>>
    /\ Slice(data, 0, 7) = SubSeq(Marker, 1, 7)
    /\ SplitsAt(7)

\* the phases of a call, taken one by one, end the way convert(data) ends
OutcomeAgrees == Done => EndsLike(data)

(***************************************************************************)
(* C14: for each of the tokens 5.00, 4.00, 4.01, 3.00, 3.01, 2.00, 1.00    *)
(* and 1.01, converting a well-formed buffer that declares 0 vertices, 0   *)
(* faces and (where the format has them) 0 LODs succeeds, and the output   *)
(* holds the comment line and no v, vn, vt or f line.                      *)
(***************************************************************************)
\* the lines of the v1 text, <<>> when the payload is not UTF-8
TextLines == IF Utf8Decode(payload).ok THEN Split(Utf8Decode(payload).s) ELSE <<>>

\* the header was accepted, it declares nothing, and no read ran past the end
\* of the buffer; for v1, line 1 is '0' and line 2 is empty
WellFormedMinimal ==
    IF handler = "version_1"
    THEN /\ Ran("version_1") /\ Len(TextLines) >= 3
         /\ TextLines[2] = <<48>> /\ TextLines[3] = <<>>
    ELSE /\ Binary /\ Ran("read_vertices") /\ ~short
         /\ hdr.num_verts = 0 /\ hdr.num_faces = 0 /\ hdr.num_lods = 0

C14_MinimalBuffers ==
    (Done /\ WellFormedMinimal) =>
        /\ token \in SupportedTokens
        /\ Succeeded
        /\ file = <<CommentLine(token)>>

\* the minimal buffer of token tok was converted
MinimalConverted(tok) ==
    Succeeded /\ data \in MinimalInputs /\ token = tok /\ WellFormedMinimal

\* the minimal v1 text, whose face loop runs over range(-1), and (checked
\* apart) the minimal buffer of every other token
C14_Witness == MinimalConverted(Tok101) /\ file = <<CommentLine(Tok101)>>
MinimalConverted500 == MinimalConverted(Tok500) /\ hdr.lod_type = 1
MinimalConverted400 == MinimalConverted(Tok400) /\ hdr.num_bones = 1
MinimalConverted401 == MinimalConverted(Tok401)
MinimalConverted300 == MinimalConverted(Tok300)
MinimalConverted301 == MinimalConverted(Tok301)
MinimalConverted200 == MinimalConverted(Tok200)
MinimalConverted100 == MinimalConverted(Tok100)

(***************************************************************************)
(* C15: convert is deterministic in its buffer: two calls with the same    *)
(* buffer, in any order and after any other calls, end in the same outcome *)
(* (the same success or the same failure) and, when they succeed, leave    *)
(* the same lines in their output files.                                   *)
(***************************************************************************)
\* the calls that ended so far
EndedCalls ==
    {log[i] : i \in 1..Len(log)} \cup (IF Done THEN {Ended(Running)} ELSE {})

C15_Deterministic ==
    \A a, b \in EndedCalls :
        a.data = b.data =>
            /\ a.result = b.result
            /\ a.succeeded = b.succeeded
            /\ a.succeeded => a.file = b.file

\* the third call converted the buffer of the first one again, after a call
\* on another buffer that wrote other lines
C15_Witness ==
    /\ Done /\ Succeeded /\ Len(log) = 2
    /\ log[1].data = data /\ log[1].succeeded /\ log[1].file = file
    /\ log[2].data # data /\ log[2].file # file /\ Len(log[2].file) = 1

\* a call on a path that an earlier call wrote to, and that this call never
\* opened: the path still holds the other call's lines
StaleFile ==
    /\ Done /\ ~opened /\ file # <<>>
    /\ Len(log) >= 1 /\ log[Len(log)].file = file

(***************************************************************************)
(* C16: two convert calls that run concurrently on their own buffers and   *)
(* their own output paths share no mutable state: under every interleaving *)
(* of their phases each call ends with the result and the output file of   *)
(* the same call run alone from start to end.                              *)
(***************************************************************************)
\* the call with locals c, once ended, ended like convert(c.data) run alone
EndedLikeAlone(c) ==
    c.pc = "done" =>
        LET alone == convert(c.data)
        IN /\ c.result = alone.result
           /\ c.opened = alone.opened
           /\ c.file = alone.lines

C16_Independent ==
    other.pc # "absent" => (EndedLikeAlone(Running) /\ EndedLikeAlone(other))

\* a call ran to its end and wrote its file while the other call, on another
\* buffer, was suspended between decoding and writing
C16_Witness ==
    /\ Done /\ Succeeded /\ Len(file) > 1
    /\ other.pc = "write" /\ other.data # data /\ other.verts # <<>>
    /\ other.steps # <<>> /\ Len(steps) > 2

(***************************************************************************)
(* C17: the v1 decoder repairs line 2 by putting a comma between every     *)
(* adjacent ']' '[' pair, parses the result as one flat ordered list of    *)
(* arrays and reads it cyclically as position, normal, texture coordinate: *)
(* vertex k (0-based) uses entries 3k, 3k+1 and 3k+2, the vertex count is  *)
(* the list length divided by 3, rounded down, and line 0 (past the        *)
(* version text) is not used.                                              *)
(***************************************************************************)
\* where the bracket groups of a line open and close
GroupOpens(line) == LET IsOpen(i) == line[i] = 91 IN Where(line, IsOpen)
GroupCloses(line) == LET IsClose(i) == line[i] = 93 IN Where(line, IsClose)

\* the groups of a line, each parsed on its own; <<>> unless the line is a
\* run of groups '[..]' without nesting, each one a JSON array, set back to
\* back or with one comma between them
GroupsAlone(line) ==
    LET o == GroupOpens(line)
        c == GroupCloses(line)
        g == [j \in 1..Len(o) |-> JsonLoads(SubSeq(line, o[j], c[j]))]
        fine == /\ Len(o) = Len(c)
                /\ o # <<>>
                /\ o[1] = 1 /\ c[Len(c)] = Len(line)
                /\ \A j \in 1..Len(o) :
                      /\ o[j] < c[j]
                      /\ j < Len(o) =>
                            \/ o[j + 1] = c[j] + 1
                            \/ o[j + 1] = c[j] + 2 /\ line[c[j] + 1] = 44
    IN IF fine /\ \A j \in 1..Len(o) : g[j].ok THEN [j \in 1..Len(o) |-> g[j].val]
       ELSE <<>>

\* the payload is text of at least three lines, line 1 a count
HasGroupLine == Len(TextLines) >= 3 /\ IntOk(TextLines[2])

\* the payload with everything between the version text and the first line
\* feed taken out
WithoutRestOfLine0 ==
    IF Find(payload, <<10>>) = -1 THEN Slice(payload, 0, 12)
    ELSE Slice(payload, 0, 12) \o Slice(payload, Find(payload, <<10>>), Len(payload))

C17_LegacyDecode ==
    (handler = "version_1" /\ Ran("version_1")) =>
        LET lines == TextLines
            g == IF Len(lines) >= 3 /\ IntOk(lines[2]) THEN GroupsAlone(lines[3])
                 ELSE <<>>
            V == Len(g) \div 3
        IN /\ g # <<>> =>
                 /\ result \notin {"JSONDecodeError", "ValueError"}
                 /\ content = g
           /\ (Succeeded /\ g # <<>>) =>
                 /\ CountKind(file, "v") = V
                 /\ CountKind(file, "vn") = V
                 /\ CountKind(file, "vt") = V
                 /\ \A k \in 1..V :
                       /\ file[1 + k].w = SubSeq(g[3 * k - 2].a, 1, 3)
                       /\ file[1 + V + k].w = SubSeq(g[3 * k - 1].a, 1, 3)
                       /\ file[1 + 2 * V + k].w[1] = g[3 * k].a[1]
                       /\ file[1 + 2 * V + k].w[3] = g[3 * k].a[3]
           /\ (Done /\ lines # <<>>) => EndsLike(WithoutRestOfLine0)

\* seven groups set back to back, with other text on line 0, were decoded to
\* two vertices
C17_Witness ==
    /\ handler = "version_1" /\ Succeeded /\ HasGroupLine
    /\ Len(GroupsAlone(TextLines[3])) = 7 /\ CountKind(file, "v") = 2
    /\ \A j \in 1..6 :
          GroupOpens(TextLines[3])[j + 1] = GroupCloses(TextLines[3])[j] + 1
    /\ WithoutRestOfLine0 # payload
    /\ file[3].w[1] = Num(200)

(***************************************************************************)
(* C18: the v1 decoder synthesizes its face list: with V decoded vertices  *)
(* it emits exactly (V - 1) // 3 faces (none when V = 0, where the range   *)
(* is empty), face i (0-based) being the triangle (3i+1, 3i+2, 3i+3);      *)
(* every emitted index lies in 1..V, and the face count on line 1 has no   *)
(* effect on which faces are emitted.                                      *)
(***************************************************************************)
\* the nine words of 'f p/p/p q/q/q r/r/r'
Triangle(p, q, r) ==
    <<Idx(Small(p)), Idx(Small(p)), Idx(Small(p)),
      Idx(Small(q)), Idx(Small(q)), Idx(Small(q)),
      Idx(Small(r)), Idx(Small(r)), Idx(Small(r))>>

C18_SynthesizedFaces ==
    (handler = "version_1" /\ Succeeded) =>
        LET V == Len(content) \div 3
            f == FaceLinesOf(file)
        IN /\ Len(f) = (IF V = 0 THEN 0 ELSE (V - 1) \div 3)
           /\ \A i \in 1..Len(f) :
                 /\ f[i].w = Triangle(3 * (i - 1) + 1, 3 * (i - 1) + 2, 3 * (i - 1) + 3)
                 /\ \A j \in 1..9 :
                       f[i].w[j].hi = 0 /\ f[i].w[j].lo >= 1 /\ f[i].w[j].lo <= V

\* seven vertices gave the faces (1, 2, 3) and (4, 5, 6) although line 1
\* declares 0 faces
C18_Witness ==
    /\ handler = "version_1" /\ Succeeded
    /\ Len(content) \div 3 = 7
    /\ TextLines[2] = <<48>>
    /\ Len(FaceLinesOf(file)) = 2
    /\ FaceLinesOf(file)[2].w = Triangle(4, 5, 6)

\* three vertices give no face at all, and six give one
ThreeVerticesNoFace ==
    /\ handler = "version_1" /\ Succeeded
    /\ Len(content) \div 3 = 3 /\ FaceLinesOf(file) = <<>>
SixVerticesOneFace ==
    /\ handler = "version_1" /\ Succeeded /\ TextLines[2] = <<57>>
    /\ Len(content) \div 3 = 6 /\ Len(FaceLinesOf(file)) = 1

(***************************************************************************)
(* C19: the v1 decoder fails with MalformedPayload when the payload is not *)
(* decodable as UTF-8 or when the comma-repaired line 2 is not parsable as *)
(* the expected sequence of 3-element arrays; in each of these cases the   *)
(* failure comes before the output path is opened and no output is         *)
(* written.                                                                *)
(***************************************************************************)
\* a JSON value that is an array of three numbers
IsTriplet(x) ==
    /\ x.t = "arr" /\ Len(x.a) = 3
    /\ \A i \in 1..3 : x.a[i].t = "num"

\* the payload is not UTF-8, or it has a count on line 1 and a line 2 that,
\* repaired, is not a JSON list of 3-element arrays
MalformedText ==
    \/ ~Utf8Decode(payload).ok
    \/ /\ Len(TextLines) >= 3 /\ IntOk(TextLines[2])
       /\ LET js == JsonLoads(<<91>> \o ReplaceBrackets(TextLines[3]) \o <<93>>)
          IN ~js.ok \/ \E j \in 1..Len(js.val.a) : ~IsTriplet(js.val.a[j])

C19_MalformedPayload ==
    (handler = "version_1" /\ Done /\ MalformedText) =>
        /\ ErrorKind = "MalformedPayload"
        /\ ~opened /\ file = <<>>

\* the part of C19 the code keeps: text that is not UTF-8 and a line 2 that
\* is not JSON after the repair fail before the path is opened
UnparsableTextFailsEarly ==
    (handler = "version_1" /\ Done) =>
        /\ ~Utf8Decode(payload).ok =>
              result = "UnicodeDecodeError" /\ ~opened /\ file = <<>>
        /\ result = "JSONDecodeError" => ~opened /\ file = <<>>
        /\ (Len(TextLines) >= 3 /\ IntOk(TextLines[2])
            /\ ~JsonLoads(<<91>> \o ReplaceBrackets(TextLines[3]) \o <<93>>).ok) =>
              result = "JSONDecodeError"

\* a 2-element array among the groups: IndexError after the path was opened
ShortGroupFailsLate ==
    /\ handler = "version_1" /\ Done /\ MalformedText
    /\ result = "IndexError" /\ opened /\ Len(file) = 1

(***************************************************************************)
(* C20: versions 3, 2 and 1 always emit all their faces: every face        *)
(* decoded from a v3 or v2 buffer is emitted whatever the v3 LOD table     *)
(* holds (a table whose second entry is smaller than the face count        *)
(* included), the flag v3 hands to the serializer is 0, and v2 never reads *)
(* a LOD table.                                                            *)
(***************************************************************************)
\* the byte offset behind the last face record of a v2 or v3 payload
FacesEnd == VertexStart + hdr.num_verts * RecordBytes + 12 * hdr.num_faces

C20_OldVersionsEmitAll ==
    /\ (handler \in {"version_2", "version_3"} /\ Done /\ Ran("write")) =>
          /\ Succeeded
          /\ ~LodGated
          /\ Len(faces) = hdr.num_faces
          /\ EmitsFirstFaces(hdr.num_faces)
    /\ (handler = "version_3" /\ Ran("read_vertices")) => hdr.lod_type = 0
    /\ handler \in {"version_1", "version_2"} => (~Ran("read_lods") /\ lods = <<>>)
    /\ (handler = "version_2" /\ Ran("write")) => pos = FacesEnd

\* a v3 mesh of two faces with LOD table [0, 1] wrote both faces
C20_Witness ==
    /\ handler = "version_3" /\ Succeeded
    /\ Len(lods) = 2 /\ AsInt(lods[2]) = 1
    /\ hdr.num_faces = 2 /\ Len(FaceLinesOf(file)) = 2

\* a v2 mesh wrote its two faces, the cursor left behind the face records
V2EmitsAll ==
    /\ handler = "version_2" /\ Succeeded
    /\ hdr.num_faces = 2 /\ Len(FaceLinesOf(file)) = 2 /\ pos = Len(payload)

(***************************************************************************)
(* C21: in every run of a binary decoder the steps occur in one fixed      *)
(* order: header, vertices, (version 4 and 5) bone skip, faces, (version 3,*)
(* 4 and 5) LOD table, serialization.  The output path is opened only      *)
(* after all of them before the serialization were passed; when a read     *)
(* step fails nothing is emitted and the path is never opened.             *)
(***************************************************************************)
\* the steps of handler h in the order of its source
StepOrder(h) ==
    <<"convert", h, "read_vertices">>
        \o (IF h \in {"version_4", "version_5"} THEN <<"bones">> ELSE <<>>)
        \o <<"read_faces">>
        \o (IF h \in {"version_3", "version_4", "version_5"} THEN <<"read_lods">>
            ELSE <<>>)
        \o <<"write">>

ReadSteps == {"version_2", "version_3", "version_4", "version_5",
              "read_vertices", "read_faces", "read_lods"}

\* the call ended in a read step, by an exception of struct.unpack
ReadStepFailed == Done /\ LastStep \in ReadSteps /\ result = "struct.error"

C21_StepOrder ==
    Binary =>
        LET order == StepOrder(handler)
        IN /\ Len(steps) <= Len(order)
           /\ steps = SubSeq(order, 1, Len(steps))
           /\ opened => steps = order
           /\ LastStep # "write" => ~opened /\ file = <<>>
           /\ ReadStepFailed => ~opened /\ file = <<>>

\* a version 5 call that read its vertices, skipped the bone data and failed
\* on the faces
C21_Witness ==
    /\ handler = "version_5" /\ ReadStepFailed /\ LastStep = "read_faces"
    /\ verts # <<>> /\ Ran("bones")
    /\ steps = <<"convert", "version_5", "read_vertices", "bones", "read_faces">>

\* a version 3 call that ran all its steps
C21_WitnessAllSteps ==
    /\ handler = "version_3" /\ Succeeded
    /\ steps = <<"convert", "version_3", "read_vertices", "read_faces", "read_lods",
                 "write">>

(***************************************************************************)
(* C22: in version 4 and 5, when the header's bone count is greater than 0 *)
(* the cursor advances by exactly 8 x vertex-count bytes between the last  *)
(* vertex record and the first face record, and by 0 bytes when the bone   *)
(* count is 0; the skipped bytes never influence the output.  Versions 2   *)
(* and 3 never skip bone data.                                             *)
(***************************************************************************)
\* the offset behind the last vertex record, and the bytes of the bone data
VerticesEnd == VertexStart + hdr.num_verts * RecordBytes
BoneBytes == IF hdr.num_bones > 0 THEN 8 * hdr.num_verts ELSE 0

\* the payload with its bone data replaced by zero bytes
WithoutBoneData ==
    [i \in 1..Len(payload) |->
        IF i > VerticesEnd /\ i <= VerticesEnd + BoneBytes THEN 0 ELSE payload[i]]

\* the face records were read from offset o on
FacesReadFrom(o) ==
    faces # <<>> =>
        /\ faces = read_faces(payload, o, hdr.num_faces, <<>>).faces
        /\ LastStep = "read_faces" => pos = o + 12 * hdr.num_faces

C22_BoneSkip ==
    /\ (Binary /\ Ran("bones")) =>
          /\ handler \in {"version_4", "version_5"}
          /\ (LastStep = "bones" /\ hdr.num_bones = 0) => pos = VerticesEnd
          /\ FacesReadFrom(VerticesEnd + BoneBytes)
          /\ Done => EndsLike(WithoutBoneData)
    /\ handler \in {"version_2", "version_3"} =>
          /\ ~Ran("bones")
          /\ FacesReadFrom(VerticesEnd)

\* bone data of 8 x 2 bytes skipped ahead of a face that was read and written
C22_Witness ==
    /\ handler = "version_4" /\ Succeeded /\ hdr.num_bones > 0
    /\ hdr.num_verts = 2 /\ BoneBytes = 16 /\ Len(FaceLinesOf(file)) > 0
    /\ payload # WithoutBoneData

\* a face read directly behind the vertices, the bone count being 0
NoBonesNoSkip ==
    /\ handler = "version_5" /\ Succeeded /\ hdr.num_bones = 0
    /\ hdr.num_verts = 2 /\ Len(FaceLinesOf(file)) > 0

\* with the whole bone data in the buffer the cursor stands behind it after
\* the skip
BoneSkipWhenPresent ==
    (LastStep = "bones" /\ Len(payload) >= VerticesEnd + BoneBytes) =>
        pos = VerticesEnd + BoneBytes

\* a buffer that ends inside the bone data, with no face and no LOD entry
\* behind it, is converted all the same (the short read of C2)
BoneSkipCutShort ==
    /\ handler = "version_5" /\ Succeeded /\ hdr.num_bones > 0
    /\ hdr.num_verts = 2 /\ Len(payload) = VerticesEnd + 11

(***************************************************************************)
(* C23: for version 5 and version 4 the number of bytes the decoder        *)
(* consumes for the header, counted from the header-size field up to the   *)
(* first vertex record, equals the header size the decoder requires (32    *)
(* and 24), so that the first vertex record is read at offset 13 + header  *)
(* size (45 and 37).                                                       *)
(***************************************************************************)
\* the header size the handler compares the size field with
RequiredHeaderSize == IF handler = "version_5" THEN 32 ELSE 24

C23_HeaderBytes ==
    handler \in {"version_4", "version_5"} =>
        /\ (pc = "vertices" /\ Len(payload) >= 13 + RequiredHeaderSize) =>
              /\ SizeField = RequiredHeaderSize
              /\ pos - 13 = SizeField
        /\ verts # <<>> =>
              /\ SizeField = RequiredHeaderSize
              /\ verts = read_vertices(payload, 13 + SizeField, hdr.num_verts,
                                       40, <<>>).verts
              /\ LastStep = "read_vertices" =>
                    pos = 13 + SizeField + 40 * hdr.num_verts

\* a version 5 header passed with the cursor at 45, and records read from there
C23_Witness ==
    /\ handler = "version_5" /\ LastStep = "read_vertices" /\ Len(verts) = 2
    /\ pos = 45 + 80

\* the same for version 4.01, cursor at 37
V4HeaderBytes ==
    /\ handler = "version_4" /\ token = StrFrom8(Utf8Decode(Marker \o Tok401).s)
    /\ LastStep = "version_4" /\ pc = "vertices" /\ pos = 37 /\ hdr.num_verts > 0

(***************************************************************************)
(* C24: serialization never indexes outside what was decoded.  For every   *)
(* version 4 or 5 buffer whose reads all succeed, write_obj_file completes *)
(* and writes the full file; a nonzero LOD-type flag with a one-entry LOD  *)
(* table, or with a second entry larger than the number of decoded faces,  *)
(* does not make it fail; the face limit is never larger than the number   *)
(* of decoded faces.                                                       *)
(***************************************************************************)
\* the file holds every line of a complete OBJ text of the decoded mesh
FullFile ==
    /\ Len(file) >= 1 + 3 * Len(verts)
    /\ file[1] = CommentLine(token)
    /\ CountKind(file, "v") = Len(verts)
    /\ CountKind(file, "vn") = Len(verts)
    /\ CountKind(file, "vt") = Len(verts)

C24_SerializerInBounds ==
    (handler \in {"version_4", "version_5"} /\ Ran("write")) =>
        LET face_limit == FaceLimit(lods, hdr.lod_type, hdr.num_faces)
        IN /\ result = "None"
           /\ FullFile
           /\ face_limit >= 0 /\ face_limit <= Len(faces)

\* flag 1 and a one-entry table: lods[1] raises IndexError, the file keeps
\* the comment line alone
OneEntryTableRaises ==
    /\ handler = "version_5" /\ Ran("write") /\ hdr.lod_type = 1 /\ Len(lods) = 1
    /\ hdr.num_verts = 1 /\ hdr.num_faces = 1
    /\ result = "IndexError" /\ file = <<CommentLine(token)>>

\* flag 1 and a second entry larger than the face count: faces[i] raises
SecondEntryTooLargeRaises ==
    /\ handler = "version_4" /\ Ran("write") /\ hdr.lod_type = 1 /\ Len(lods) = 2
    /\ AsInt(lods[2]) > Len(faces)
    /\ result = "IndexError" /\ file = <<CommentLine(token)>>

\* wherever the limit stays inside the decoded faces the serializer completes
InBoundsCompletes ==
    (Binary /\ Ran("write")) =>
        LET face_limit == FaceLimit(lods, hdr.lod_type, hdr.num_faces)
        IN (face_limit >= 0 /\ face_limit <= Len(faces)) =>
              result = "None" /\ FullFile

(***************************************************************************)
(* C25: for a version 1 payload whose decoded vertex count V is a positive *)
(* multiple of 3, the emitted faces cover every group of three vertices:   *)
(* V / 3 triangles are emitted and every vertex index 1..V appears in      *)
(* exactly one face.                                                       *)
(***************************************************************************)
\* the face lines of f that name vertex k
FacesNaming(f, k) ==
    {i \in 1..Len(f) : \E j \in {1, 4, 7} : f[i].w[j] = Idx(Small(k))}

C25_FacesCoverGroups ==
    (handler = "version_1" /\ Succeeded) =>
        LET V == Len(content) \div 3
            f == FaceLinesOf(file)
        IN (V > 0 /\ V % 3 = 0) =>
              /\ Len(f) = V \div 3
              /\ \A k \in 1..V : Cardinality(FacesNaming(f, k)) = 1

\* six vertices: the one face (1, 2, 3), and no face names vertex 4, 5 or 6
LastGroupUncovered ==
    /\ handler = "version_1" /\ Succeeded
    /\ Len(content) \div 3 = 6
    /\ FaceLinesOf(file) = <<Line("f", Triangle(1, 2, 3))>>
    /\ \A k \in 4..6 : FacesNaming(FaceLinesOf(file), k) = {}

(***************************************************************************)
(* C26: convert runs a handler only on a payload that begins with the      *)
(* marker 'version '.  For a buffer that does not contain the marker, or   *)
(* whose first 8 payload characters are anything else, no handler runs and *)
(* no output is written, even if characters 8..11 spell a supported token  *)
(* such as '5.00'.                                                         *)
(***************************************************************************)
HandlerRan == calls > 0 \/ handler # "none"

C26_MarkerRequired ==
    /\ HandlerRan => Slice(payload, 0, 8) = Marker
    /\ (Ran("convert") /\ Slice(payload, 0, 8) # Marker) =>
          /\ ~HandlerRan
          /\ Done /\ ~opened /\ file = <<>>

\* 'Version 5.00' and a mesh: no marker anywhere, yet version_5 ran and wrote
\* the file
HandlerWithoutMarker ==
    /\ Find(data, Marker) = -1
    /\ Slice(payload, 0, 8) = NotMarker
    /\ handler = "version_5" /\ Succeeded /\ Len(file) > 1

\* with the marker in the buffer the payload starts with it
MarkerFoundStartsPayload ==
    (Ran("convert") /\ Find(data, Marker) # -1) => Slice(payload, 0, 8) = Marker

(***************************************************************************)
(* C27: in version 3 and version 2 the header-size field, the per-face     *)
(* record size and (version 3) the LOD-table byte size are read but do not *)
(* influence decoding: vertices start at the fixed offsets 29 (v3) and 25  *)
(* (v2), face records are always 12 bytes, and the per-vertex size matters *)
(* only through whether it equals 40 (40-byte records) or not (36-byte).   *)
(***************************************************************************)
\* the payload with header size, face-record size and LOD byte size set to
\* 16 (v3) or 12 (v2), 12 and 4, and a per-vertex size other than 40 set to 36
WithPlainSizeFields ==
    [i \in 1..Len(payload) |->
        CASE i = 14 -> IF handler = "version_3" THEN 16 ELSE 12
          [] i = 15 -> 0
          [] i = 16 -> IF payload[i] = 40 THEN 40 ELSE 36
          [] i = 17 -> 12
          [] i = 18 /\ handler = "version_3" -> 4
          [] i = 19 /\ handler = "version_3" -> 0
          [] OTHER -> payload[i]]

\* where version_3 and version_2 start to read vertex records
OldVertexStart == IF handler = "version_3" THEN 29 ELSE 25

C27_SizeFieldsUnused ==
    handler \in {"version_2", "version_3"} =>
        /\ Done => EndsLike(WithPlainSizeFields)
        /\ verts # <<>> =>
              /\ verts = read_vertices(payload, OldVertexStart, hdr.num_verts,
                                       hdr.szvertex, <<>>).verts
              /\ LastStep = "read_vertices" =>
                    pos = OldVertexStart
                          + hdr.num_verts * (IF payload[16] = 40 THEN 40 ELSE 36)
        /\ faces # <<>> =>
              /\ faces = read_faces(payload, VerticesEnd, hdr.num_faces, <<>>).faces
              /\ LastStep = "read_faces" => pos = VerticesEnd + 12 * hdr.num_faces

\* a v3 mesh declaring header size 99, 16-byte faces and 8 LOD bytes per
\* entry, converted like the plain one
C27_Witness ==
    /\ handler = "version_3" /\ Succeeded
    /\ SizeField = 99 /\ payload[17] = 16 /\ payload[18] = 8
    /\ payload # WithPlainSizeFields
    /\ Len(verts) = 1 /\ Len(FaceLinesOf(file)) = MaxFaces /\ Len(lods) = 2

\* the same for a v2 mesh declaring header size 0 and face size 0
V2SizeFieldsUnused ==
    /\ handler = "version_2" /\ Succeeded
    /\ SizeField = 0 /\ payload[17] = 0
    /\ Len(verts) = 1 /\ Len(FaceLinesOf(file)) = MaxFaces

(***************************************************************************)
(* C28: the GUI caller convert_mesh_to_obj returns an OBJ path exactly     *)
(* when convert ran to the end of serialization.  It returns None when     *)
(* convert raises, and also when convert returns without writing           *)
(* (unsupported version, header-size mismatch), the temporary file it      *)
(* created being empty then; it never returns the path of an empty or      *)
(* partially written file.                                                 *)
(***************************************************************************)
Returned == app.returned \in {"obj_path", "None"}

C28_CallerReturnsPath ==
    Returned =>
        /\ app.returned = "obj_path" <=> Succeeded
        /\ result # "None" => app.returned = "None"
        /\ (result = "None" /\ ~opened) => app.returned = "None" /\ file = <<>>
        /\ app.returned = "obj_path" =>
              /\ file # <<>>
              /\ result = "None" /\ opened
              /\ file = convert(data).lines

\* a path returned for a converted mesh
C28_Witness ==
    /\ app.returned = "obj_path" /\ Succeeded /\ Len(file) > 1

\* None returned although the file is not empty: convert raised IndexError
\* after the comment line was written
PartialFileNotReturned ==
    /\ app.returned = "None" /\ result = "IndexError"
    /\ opened /\ file = <<CommentLine(token)>>

\* None returned for the header-size branch and for an unsupported token
EmptyFileNotReturnedSize ==
    /\ app.returned = "None" /\ result = "None" /\ WrongHeaderSize /\ file = <<>>
EmptyFileNotReturnedToken ==
    /\ app.returned = "None" /\ result = "None" /\ handler = "none" /\ file = <<>>

(***************************************************************************)
(* C29: in the cache browser, under every sequence of mode switches,       *)
(* Live Update checkbox toggles and timer expiries, at most one            *)
(* update_cache_live single-shot timer is pending at any time, and         *)
(* live_update_running is true whenever one is pending; switching away and *)
(* back, or unchecking and rechecking the box, within the 2-second timer   *)
(* period never starts a second polling chain next to one still pending.   *)
(***************************************************************************)
Pending == Len(app.timers)

C29_SinglePollingChain ==
    /\ Pending <= 1
    /\ Pending >= 1 => app.live_update_running

\* a timer is pending while live_update_running is false: the state after
\* set_json_mode, or after unchecking the box, with a chain under way
PendingButNotRunning ==
    /\ Pending = 1 /\ app.timers[1] > 0 /\ ~app.live_update_running

\* two timers pending in cache mode with the box checked: both will re-arm
\* themselves, so two polling chains run from here on
TwoPollingChains ==
    /\ Pending = 2 /\ app.current_mode = "cache" /\ app.checked
    /\ app.live_update_running
    /\ app.timers[1] > 0

\* the flag does its work as long as it is true: while it stays true no
\* second timer is armed by the handlers
RunningAddsNoTimer ==
    [][(app.live_update_running /\ app'.live_update_running)
           => Len(app'.timers) <= Len(app.timers)]_vars

====
